---- MODULE Spec2Model ----
(***************************************************************************)
(* A model of the key lifecycle of i18n-fixer (src/src/index.js, class     *)
(* I18nStringFinder): key generation, namespaces, the Generate, Extract,   *)
(* Merge, Validate and Duplicate-check operations.                         *)
(*                                                                         *)
(* JavaScript strings are TLA+ strings; TLC evaluates Len, \o and SubSeq   *)
(* on them, so the character-level code (regular expressions, split, join) *)
(* is modelled character by character.                                     *)
(***************************************************************************)
EXTENDS Integers, Sequences, FiniteSets, TLC

(***************************************************************************)
(* Bounds of the model.                                                    *)
(***************************************************************************)
\* Longest this.results sequence a Generate run is given.
MaxResults == 3
\* Longest key-usage sequence a scan of the project finds.
MaxUsages == 2
\* Longest this.results sequence a Merge run's scan finds.
MaxHardcoded == 2

(***************************************************************************)
(* Strings.                                                                *)
(***************************************************************************)
Ch(s, i) == SubSeq(s, i, i)

LowerAlpha == "abcdefghijklmnopqrstuvwxyz"
UpperAlpha == "ABCDEFGHIJKLMNOPQRSTUVWXYZ"
Digits == "0123456789"
\* The printable characters in code order, without the double quote (34), the
\* backslash (92) and the backquote (96), which the strings of the model do
\* not contain.
AsciiLow == " !"
AsciiMid == "#$%&'()*+,-./0123456789:;<=>?@ABCDEFGHIJKLMNOPQRSTUVWXYZ["
AsciiHigh == "]^_"
AsciiTop == "abcdefghijklmnopqrstuvwxyz{|}~"
CodeOfSpace == 32
CodeOfHash == 35
CodeOfBracket == 93
CodeOfSmallA == 97
CodeOfTab == 9
CodeOfNewline == 10

\* 0 when c is not in the alphabet.
IndexIn(c, alphabet) ==
  IF \E i \in 1..Len(alphabet) : Ch(alphabet, i) = c
  THEN CHOOSE i \in 1..Len(alphabet) : Ch(alphabet, i) = c
  ELSE 0

IsLower(c) == IndexIn(c, LowerAlpha) > 0
IsUpper(c) == IndexIn(c, UpperAlpha) > 0
IsDigit(c) == IndexIn(c, Digits) > 0
\* The class \s of a regular expression, over the characters of the model.
IsSpace(c) == c \in {" ", "\t", "\n"}

LowerChar(c) == IF IsUpper(c) THEN Ch(LowerAlpha, IndexIn(c, UpperAlpha)) ELSE c

RECURSIVE toLowerCase(_)
toLowerCase(s) ==
  IF s = "" THEN "" ELSE LowerChar(Ch(s, 1)) \o toLowerCase(SubSeq(s, 2, Len(s)))

RECURSIVE trimStart(_)
trimStart(s) ==
  IF s # "" /\ IsSpace(Ch(s, 1)) THEN trimStart(SubSeq(s, 2, Len(s))) ELSE s

RECURSIVE trimEnd(_)
trimEnd(s) ==
  IF s # "" /\ IsSpace(Ch(s, Len(s))) THEN trimEnd(SubSeq(s, 1, Len(s) - 1)) ELSE s

trim(s) == trimEnd(trimStart(s))

\* s.replace(/[^a-z0-9\s]/g, '')
RECURSIVE StripSpecial(_)
StripSpecial(s) ==
  IF s = "" THEN ""
  ELSE LET c == Ch(s, 1)
       IN (IF IsLower(c) \/ IsDigit(c) \/ IsSpace(c) THEN c ELSE "")
          \o StripSpecial(SubSeq(s, 2, Len(s)))

\* s.replace(/\s+/g, ' ')
RECURSIVE CollapseSpaces(_)
CollapseSpaces(s) ==
  IF s = "" THEN ""
  ELSE IF IsSpace(Ch(s, 1))
       THEN " " \o CollapseSpaces(trimStart(s))
       ELSE Ch(s, 1) \o CollapseSpaces(SubSeq(s, 2, Len(s)))

\* The spaces removed instead of replaced.
RECURSIVE DropSpaces(_)
DropSpaces(s) ==
  IF s = "" THEN ""
  ELSE (IF IsSpace(Ch(s, 1)) THEN "" ELSE Ch(s, 1)) \o DropSpaces(SubSeq(s, 2, Len(s)))

\* s.replace(/\s/g, '_')
RECURSIVE SpacesToUnderscores(_)
SpacesToUnderscores(s) ==
  IF s = "" THEN ""
  ELSE (IF IsSpace(Ch(s, 1)) THEN "_" ELSE Ch(s, 1))
       \o SpacesToUnderscores(SubSeq(s, 2, Len(s)))

\* s.substring(0, n)
substring0(s, n) == SubSeq(s, 1, IF n < Len(s) THEN n ELSE Len(s))

\* The string as it is.
KeepTrailingUnderscores(s) == s

\* s.replace(/_+$/, '')
RECURSIVE StripTrailingUnderscores(_)
StripTrailingUnderscores(s) ==
  IF s # "" /\ Ch(s, Len(s)) = "_"
  THEN StripTrailingUnderscores(SubSeq(s, 1, Len(s) - 1))
  ELSE s

\* s.split(sep) for a one-character separator: a non-empty sequence of strings.
RECURSIVE SplitAcc(_, _, _)
SplitAcc(s, sep, cur) ==
  IF s = "" THEN <<cur>>
  ELSE IF Ch(s, 1) = sep
       THEN <<cur>> \o SplitAcc(SubSeq(s, 2, Len(s)), sep, "")
       ELSE SplitAcc(SubSeq(s, 2, Len(s)), sep, cur \o Ch(s, 1))

split(s, sep) == SplitAcc(s, sep, "")

\* parts.join(sep)
RECURSIVE join(_, _)
join(parts, sep) ==
  IF Len(parts) = 0 THEN ""
  ELSE IF Len(parts) = 1 THEN parts[1]
       ELSE parts[1] \o sep \o join(Tail(parts), sep)

\* str.charCodeAt of one character.
charCode(c) ==
  IF c = "\t" THEN CodeOfTab
  ELSE IF c = "\n" THEN CodeOfNewline
  ELSE IF IndexIn(c, AsciiLow) > 0 THEN CodeOfSpace + IndexIn(c, AsciiLow) - 1
  ELSE IF IndexIn(c, AsciiMid) > 0 THEN CodeOfHash + IndexIn(c, AsciiMid) - 1
  ELSE IF IndexIn(c, AsciiHigh) > 0 THEN CodeOfBracket + IndexIn(c, AsciiHigh) - 1
  ELSE CodeOfSmallA + IndexIn(c, AsciiTop) - 1

(***************************************************************************)
(* simpleHash: hash = ((hash << 5) - hash) + char; hash = hash & hash.     *)
(* The value is a signed 32-bit integer; it is kept as a pair of 16-bit    *)
(* halves while it is computed so that no intermediate result exceeds 32   *)
(* bits.                                                                   *)
(***************************************************************************)
Two16 == 65536
Two15 == 32768
HashMultiplier == 31

\* (31 * h + c) wrapped to a signed 32-bit integer.
HashStep(h, c) ==
  LET hi == h \div Two16
      lo == h % Two16
      t == HashMultiplier * lo + c
      lo2 == t % Two16
      hi2 == ((HashMultiplier * hi + (t \div Two16) + Two15) % Two16) - Two15
  IN hi2 * Two16 + lo2

RECURSIVE HashFrom(_, _)
HashFrom(h, s) ==
  IF s = "" THEN h ELSE HashFrom(HashStep(h, charCode(Ch(s, 1))), SubSeq(s, 2, Len(s)))

Base36Digits == "0123456789abcdefghijklmnopqrstuvwxyz"
Radix == 36

\* n.toString(36) for n >= 0.
RECURSIVE toString36(_)
toString36(n) ==
  IF n < Radix THEN Ch(Base36Digits, n + 1)
  ELSE toString36(n \div Radix) \o Ch(Base36Digits, (n % Radix) + 1)

\* Math.abs(h).toString(36); for h < 0 the digits of -h are computed from
\* m = -(h + 1), because -h itself is 2^31 when h is the least 32-bit integer.
AbsToString36(h) ==
  IF h >= 0 THEN toString36(h)
  ELSE LET m == -(h + 1)
           last == ((m % Radix) + 1) % Radix
           rest == (m \div Radix) + (IF m % Radix = Radix - 1 THEN 1 ELSE 0)
       IN (IF rest = 0 THEN "" ELSE toString36(rest)) \o Ch(Base36Digits, last + 1)

HashTextLen == 8

simpleHash(str) == substring0(AbsToString36(HashFrom(0, str)), HashTextLen)

(***************************************************************************)
(* generateKey                                                             *)
(***************************************************************************)
MaxKeyLen == 40
MinKeyLen == 2

NormalizeKey(value) ==
  StripTrailingUnderscores(
    substring0(
      SpacesToUnderscores(CollapseSpaces(StripSpecial(trim(toLowerCase(value))))),
      MaxKeyLen))

generateKey(value) ==
  LET key == NormalizeKey(value)
  IN IF Len(key) < MinKeyLen THEN "text_" \o simpleHash(value) ELSE key

(***************************************************************************)
(* getNamespaceFromPath.  A file is named by its path relative to the root *)
(* of the scan, the value path.relative(rootPath, filePath) has on a POSIX *)
(* system, so that parts is that path split on "/".                        *)
(***************************************************************************)
PathSep == "/"

EndsWith(s, suffix) ==
  Len(s) >= Len(suffix) /\ SubSeq(s, Len(s) - Len(suffix) + 1, Len(s)) = suffix

\* fileName.replace(/\.(jsx?|tsx?)$/, '')
StripExtension(name) ==
  IF EndsWith(name, ".jsx") \/ EndsWith(name, ".tsx") THEN SubSeq(name, 1, Len(name) - 4)
  ELSE IF EndsWith(name, ".js") \/ EndsWith(name, ".ts") THEN SubSeq(name, 1, Len(name) - 3)
  ELSE name

\* s.replace(/([A-Z])/g, '_$1')
RECURSIVE UnderscoreCapitals(_)
UnderscoreCapitals(s) ==
  IF s = "" THEN ""
  ELSE (IF IsUpper(Ch(s, 1)) THEN "_" \o Ch(s, 1) ELSE Ch(s, 1))
       \o UnderscoreCapitals(SubSeq(s, 2, Len(s)))

\* s.replace(/^_/, '')
StripLeadingUnderscore(s) ==
  IF s # "" /\ Ch(s, 1) = "_" THEN SubSeq(s, 2, Len(s)) ELSE s

snakeName(fileName) == StripLeadingUnderscore(toLowerCase(UnderscoreCapitals(fileName)))

skipDirs == {"src", "app", "lib", "utils"}

RECURSIVE NamespaceDirs(_)
NamespaceDirs(parts) ==
  IF Len(parts) = 0 THEN <<>>
  ELSE (IF toLowerCase(parts[1]) \in skipDirs THEN <<>> ELSE <<toLowerCase(parts[1])>>)
       \o NamespaceDirs(Tail(parts))

getNamespaceFromPath(relativePath) ==
  LET parts == split(relativePath, PathSep)
      fileName == StripExtension(parts[Len(parts)])
      dirs == NamespaceDirs(SubSeq(parts, 1, Len(parts) - 1))
      namespace == IF toLowerCase(fileName) # "index"
                   THEN Append(dirs, snakeName(fileName))
                   ELSE dirs
  IN IF Len(namespace) > 0 THEN join(namespace, ".") ELSE "common"

(***************************************************************************)
(* JavaScript values.  An object is the sequence of its own enumerable     *)
(* properties in insertion order, which is the order Object.entries and    *)
(* Map.forEach visit them in.  Every value is a record of one shape.       *)
(***************************************************************************)
Str(x) == [t |-> "string", s |-> x, e |-> <<>>]
Obj(entries) == [t |-> "object", s |-> "", e |-> entries]
Undefined == [t |-> "undefined", s |-> "", e |-> <<>>]
\* A JSON leaf that is no string: a number, a boolean or null.
NonString == [t |-> "other", s |-> "", e |-> <<>>]
\* A member every object literal {} inherits from Object.prototype.
Inherited == [t |-> "function", s |-> "", e |-> <<>>]
EmptyObject == Obj(<<>>)

ObjectPrototype ==
  {"constructor", "hasOwnProperty", "isPrototypeOf", "propertyIsEnumerable",
   "toLocaleString", "toString", "valueOf", "__proto__",
   "__defineGetter__", "__defineSetter__", "__lookupGetter__", "__lookupSetter__"}

HasOwn(entries, k) == \E n \in 1..Len(entries) : entries[n].k = k
OwnIndex(entries, k) == CHOOSE n \in 1..Len(entries) : entries[n].k = k

\* o[k]: an own property, a member inherited from Object.prototype, or
\* undefined.  A string primitive has no property of the names of the model.
Get(o, k) ==
  IF o.t = "object" /\ HasOwn(o.e, k) THEN o.e[OwnIndex(o.e, k)].v
  ELSE IF o.t = "object" /\ k \in ObjectPrototype THEN Inherited
  ELSE Undefined

\* The own properties after o[k] = v on an object.
Put(entries, k, v) ==
  IF HasOwn(entries, k)
  THEN [entries EXCEPT ![OwnIndex(entries, k)] = [k |-> k, v |-> v]]
  ELSE Append(entries, [k |-> k, v |-> v])

\* !v
Falsy(v) == v.t = "undefined" \/ (v.t = "string" /\ v.s = "")

\* The outcome of a statement sequence working through a reference: it threw,
\* or it left the value v where the reference pointed.
Threw == [threw |-> TRUE, v |-> Undefined]
Normal(v) == [threw |-> FALSE, v |-> v]

\* current[k] = v.  The file is an ES module, hence strict code: creating a
\* property on a string primitive throws a TypeError.  A property created on
\* an inherited member lands outside the tree.
Assign(current, k, v) ==
  IF current.t = "object" THEN Normal(Obj(Put(current.e, k, v)))
  ELSE IF current.t = "string" THEN Threw
  ELSE Normal(current)

\* (n).toString() for n >= 0
RECURSIVE ToDecimal(_)
ToDecimal(n) ==
  IF n < 10 THEN Ch(Digits, n + 1)
  ELSE ToDecimal(n \div 10) \o Ch(Digits, (n % 10) + 1)

(***************************************************************************)
(* State.                                                                  *)
(***************************************************************************)
VARIABLES
  pc,        \* where the running operation stands
  options,   \* the options object of the running operation
  project,   \* what scanning the file set finds: its key usages and strings
  baseline,  \* the translation file an operation reads
  results,   \* this.results
  usedKeys,  \* this.usedKeys
  gen,       \* the locals of generateI18nFile
  mrg,       \* the locals of generateComplete
  ext,       \* the locals of extractKeysFromCode
  val,       \* the locals of validateKeys
  dup,       \* the locals of checkDuplicateKeys
  written,   \* the files written to the output paths, by suffix
  stats,     \* this.stats
  call,      \* the arguments and the return value of a call of a helper method
  fnd,       \* the locals of findStringUsage
  process    \* what the command has written to the console about the translation
             \* file it reads, and the status it exits with

vars == <<pc, options, project, baseline, results, usedKeys,
          gen, mrg, ext, val, dup, written, stats, call, fnd, process>>

\* The locals of an operation that is not running, and no file.
None == <<>>

\* A command that has written nothing yet.  Nothing in the program sets
\* process.exitCode or calls process.exit: the status is that of a normal end.
Started == [console |-> <<>>, exitCode |-> 0]

\* The sequences of length n over the finite set S.
SeqsOfLen(S, n) == [1..n -> S]
SeqsUpTo(S, n) == UNION {SeqsOfLen(S, m) : m \in 0..n}

\* An occurrence of this.results; its line stands for its position in the
\* scan, the n-th occurrence found being on line n.
Occurrence(file, line, value) == [file |-> file, line |-> line, value |-> value]

OccurrenceSeqs(files, values, n) ==
  {[m \in 1..Len(c) |-> Occurrence(c[m][1], m, c[m][2])] : c \in SeqsUpTo(files \X values, n)}

(***************************************************************************)
(* The unique-key loops.                                                   *)
(***************************************************************************)
\* ns ? `${ns}.${key}` : key
FullKey(ns, key) == IF ns # "" THEN ns \o "." \o key ELSE key

\* while (claimed(fullKey)) { key = `${baseKey}_${counter}`; counter++ }
RECURSIVE UniqueKeyLoop(_, _, _, _, _)
UniqueKeyLoop(claimed, ns, baseKey, key, counter) ==
  IF FullKey(ns, key) \in claimed
  THEN UniqueKeyLoop(claimed, ns, baseKey, baseKey \o "_" \o ToDecimal(counter), counter + 1)
  ELSE key

\* The loop tested once only, as an if.
UniqueKeyOnce(claimed, ns, baseKey) ==
  IF FullKey(ns, baseKey) \in claimed THEN baseKey \o "_" \o ToDecimal(1) ELSE baseKey

\* The loop with its counter starting one too high.
UniqueKeyFromTwo(claimed, ns, baseKey) == UniqueKeyLoop(claimed, ns, baseKey, baseKey, 2)

UniqueKey(claimed, ns, baseKey) == UniqueKeyLoop(claimed, ns, baseKey, baseKey, 1)

(***************************************************************************)
(* generateI18nFile (Generate)                                             *)
(***************************************************************************)
\* The nested branch of the forEach callback: the walk down parts through
\* `current`, then current[last] = value.  There is no _value rule here.
RECURSIVE GenerateNest(_, _, _)
GenerateNest(current, parts, value) ==
  IF Len(parts) = 1 THEN Assign(current, parts[1], Str(value))
  ELSE LET made == IF Falsy(Get(current, parts[1]))
                   THEN Assign(current, parts[1], EmptyObject)
                   ELSE Normal(current)
       IN IF made.threw THEN Threw
          ELSE LET child == Get(made.v, parts[1])
                   below == GenerateNest(child, Tail(parts), value)
               IN IF below.threw THEN Threw
                  ELSE IF made.v.t = "object" /\ HasOwn(made.v.e, parts[1])
                       THEN Assign(made.v, parts[1], below.v)
                       ELSE made

\* if (flat || !namespace) translations[key] = result.value; else nested.
GenerateStore(translations, flat, namespace, key, finalFullKey, value) ==
  IF flat \/ ~namespace
  THEN Assign(translations, key, Str(value))
  ELSE GenerateNest(translations, split(finalFullKey, "."), value)

\* The files and strings a Generate run is given.  Each string passes the
\* filters of addResult.
GenerateFiles == {"a.js", "a/Bb.js"}
GenerateValues == {"Ok", "Ok 1", "Bb", "!?"}

\* The project a Merge run scans: the keys its translation calls use, in the
\* one file that holds them, and its hardcoded strings.  The placeholder is
\* the default '' or a text given with --placeholder.
MergeKeys == {"a", "a.b", "a.ok"}
UsageFiles == {"a.js"}
MergeFiles == {"a.js", "a/Bb.js"}
MergeValues == {"Ok", "Bb"}
Placeholders == {"", "TODO"}

\* generateKey and getNamespaceFromPath on the strings and files of the model,
\* each evaluated once.
\* The texts of the literals and JSX texts of a scanned file, the one file
\* of a scanned project, and the keys its translation calls are given.
ScanTexts == {"Welcome to the App", "Click Me", "some text", "Hey", " x ", "Welcome back"}
OtherBranch == "Please login"
ScanFiles == {"a/Bb.js"}
ScanKeys == {"welcome.title", "a.b"}
\* The paths of the files of a project that holds several, by position.
ProjectPaths == <<"a.js", "a/Bb.js", "a/Cc.js", "b.js">>

ModelValues ==
  GenerateValues \cup MergeValues \cup {trim(text) : text \in ScanTexts \cup {OtherBranch}}
ModelFiles ==
  GenerateFiles \cup MergeFiles \cup ScanFiles
  \cup {ProjectPaths[n] : n \in 1..Len(ProjectPaths)}
generateKeyOf == [value \in ModelValues |-> generateKey(value)]
namespaceOf == [file \in ModelFiles |-> getNamespaceFromPath(file)]

GenerateStart ==
  /\ pc = "generate"
  /\ IF Len(results) = 0
     THEN /\ pc' = "done"
          /\ gen' = gen
     ELSE /\ pc' = "generate.forEach"
          /\ gen' = [i |-> 0, translations |-> EmptyObject, keyMap |-> <<>>,
                     usedKeys |-> {}, assigned |-> <<>>]
  /\ UNCHANGED <<options, project, baseline, results, usedKeys, mrg, ext, val, dup, written, stats, call, fnd, process>>

\* The forEach callback with the file written after every occurrence.
GenerateForEachWriting ==
  /\ pc = "generate.forEach"
  /\ gen.i < Len(results)
  /\ LET result == results[gen.i + 1]
         ns == IF options.namespace THEN namespaceOf[result.file] ELSE ""
         key == UniqueKey(gen.usedKeys, ns, generateKeyOf[result.value])
         finalFullKey == FullKey(ns, key)
         stored == GenerateStore(gen.translations, options.flat, options.namespace,
                                 key, finalFullKey, result.value)
         keyMap == Put(gen.keyMap, result.value,
                       [key |-> finalFullKey, file |-> result.file, line |-> result.line])
     IN /\ pc' = IF stored.threw THEN "threw" ELSE pc
        /\ gen' = [i |-> gen.i + 1,
                   translations |-> IF stored.threw THEN gen.translations ELSE stored.v,
                   keyMap |-> keyMap,
                   usedKeys |-> gen.usedKeys \cup {finalFullKey},
                   assigned |-> Append(gen.assigned, finalFullKey)]
        /\ written' = [json |-> IF stored.threw THEN gen.translations ELSE stored.v,
                       keymap |-> keyMap]
  /\ UNCHANGED <<options, project, baseline, results, usedKeys, mrg, ext, val, dup, stats, call, fnd, process>>

GenerateForEach ==
  /\ pc = "generate.forEach"
  /\ gen.i < Len(results)
  /\ LET result == results[gen.i + 1]
         ns == IF options.namespace THEN namespaceOf[result.file] ELSE ""
         baseKey == generateKeyOf[result.value]
         key == UniqueKey(gen.usedKeys, ns, baseKey)
         finalFullKey == FullKey(ns, key)
         stored == GenerateStore(gen.translations, options.flat, options.namespace,
                                 key, finalFullKey, result.value)
     IN IF stored.threw
        THEN \* the TypeError leaves forEach and generateI18nFile
             /\ pc' = "threw"
             /\ gen' = [gen EXCEPT !.i = gen.i + 1,
                                   !.usedKeys = gen.usedKeys \cup {finalFullKey},
                                   !.assigned = Append(gen.assigned, finalFullKey)]
        ELSE /\ pc' = pc
             /\ gen' = [i |-> gen.i + 1,
                        translations |-> stored.v,
                        keyMap |-> Put(gen.keyMap, result.value,
                                       [key |-> finalFullKey, file |-> result.file,
                                        line |-> result.line]),
                        usedKeys |-> gen.usedKeys \cup {finalFullKey},
                        assigned |-> Append(gen.assigned, finalFullKey)]
  /\ UNCHANGED <<options, project, baseline, results, usedKeys, mrg, ext, val, dup, written, stats, call, fnd, process>>

\* fs.writeFileSync of the translation file, then of the key map.
GenerateWrite ==
  /\ pc = "generate.forEach"
  /\ gen.i = Len(results)
  /\ written' = [json |-> gen.translations, keymap |-> gen.keyMap]
  /\ pc' = "done"
  /\ UNCHANGED <<options, project, baseline, results, usedKeys, gen, mrg, ext, val, dup, stats, call, fnd, process>>

InitGenerate ==
  /\ pc = "generate"
  /\ options \in [flat : BOOLEAN, namespace : BOOLEAN]
  /\ results \in OccurrenceSeqs(GenerateFiles, GenerateValues, MaxResults)
  /\ project = None
  /\ baseline = None
  /\ usedKeys = <<>>
  /\ gen = None /\ mrg = None /\ ext = None /\ val = None /\ dup = None /\ fnd = None
  /\ process = Started
  /\ written = None
  /\ stats = None /\ call = None

NextGenerate == GenerateStart \/ GenerateForEach \/ GenerateWrite

SpecGenerate == InitGenerate /\ [][NextGenerate]_vars

(***************************************************************************)
(* Maps (new Map()): sequences of [k, v] in insertion order, with no       *)
(* inherited members.                                                      *)
(***************************************************************************)
MapHas(map, k) == HasOwn(map, k)
MapGet(map, k) == map[OwnIndex(map, k)].v
MapSet(map, k, v) == Put(map, k, v)
MapKeys(map) == {map[n].k : n \in 1..Len(map)}

\* new Map([...first, ...second])
RECURSIVE MapSetAll(_, _)
MapSetAll(map, entries) ==
  IF Len(entries) = 0 THEN map
  ELSE MapSetAll(MapSet(map, entries[1].k, entries[1].v), Tail(entries))

MapUnion(first, second) == MapSetAll(MapSetAll(<<>>, first), second)

(***************************************************************************)
(* The nested build of generateComplete and extractKeysFromCode: the walk  *)
(* down parts that turns a string on the way into { _value: string }.      *)
(***************************************************************************)
RECURSIVE NestWithValue(_, _, _)
NestWithValue(current, parts, value) ==
  IF Len(parts) = 1 THEN Assign(current, parts[1], Str(value))
  ELSE LET made == IF Falsy(Get(current, parts[1]))
                   THEN Assign(current, parts[1], EmptyObject)
                   ELSE Normal(current)
           kept == IF Get(made.v, parts[1]).t = "string"
                   THEN Assign(made.v, parts[1],
                               Obj(<<[k |-> "_value", v |-> Get(made.v, parts[1])]>>))
                   ELSE made
           child == Get(kept.v, parts[1])
           below == NestWithValue(child, Tail(parts), value)
       IN IF kept.v.t = "object" /\ HasOwn(kept.v.e, parts[1])
          THEN Assign(kept.v, parts[1], below.v)
          ELSE kept

(***************************************************************************)
(* generateComplete (Merge)                                                *)
(***************************************************************************)
KeyUsage(key, file, line) == [key |-> key, file |-> file, line |-> line]

KeyUsageSeqs(keys, files, n) ==
  {[m \in 1..Len(c) |-> KeyUsage(c[m][1], c[m][2], m)] : c \in SeqsUpTo(keys \X files, n)}

\* Step 1: this.usedKeys = []; await this.scanUsedKeys(rootPath)
MergeScanKeys ==
  /\ pc = "complete"
  /\ usedKeys' = project.keys
  /\ mrg' = [i |-> 0, existingKeys |-> <<>>, newKeys |-> <<>>, usedKeyNames |-> {},
             allKeys |-> <<>>, translations |-> EmptyObject, assigned |-> <<>>]
  /\ pc' = "complete.existing"
  /\ UNCHANGED <<options, project, baseline, results, gen, ext, val, dup, written, stats, call, fnd, process>>

\* this.usedKeys.forEach((keyInfo) => ...)
MergeExistingForEach ==
  /\ pc = "complete.existing"
  /\ mrg.i < Len(usedKeys)
  /\ LET keyInfo == usedKeys[mrg.i + 1]
         entry == IF MapHas(mrg.existingKeys, keyInfo.key)
                  THEN MapGet(mrg.existingKeys, keyInfo.key)
                  ELSE [key |-> keyInfo.key, value |-> options.placeholder,
                        source |-> "existing", locations |-> <<>>]
         pushed == [entry EXCEPT !.locations =
                      Append(entry.locations, [file |-> keyInfo.file, line |-> keyInfo.line])]
     IN mrg' = [mrg EXCEPT !.i = mrg.i + 1,
                           !.existingKeys = MapSet(mrg.existingKeys, keyInfo.key, pushed)]
  /\ UNCHANGED <<pc, options, project, baseline, results, usedKeys, gen, ext, val, dup, written, stats, call, fnd, process>>

\* new Set(existingKeys.keys())
ExistingKeyNames(existingKeys) == MapKeys(existingKeys)

\* A set that forgets the extracted keys.
NoKeyNames(existingKeys) == {}

usedKeyNamesOf(existingKeys) == ExistingKeyNames(existingKeys)

\* Step 2: this.results = []; await this.scanProject(rootPath); then the
\* declarations that open step 3.
MergeScanStrings ==
  /\ pc = "complete.existing"
  /\ mrg.i = Len(usedKeys)
  /\ results' = project.strings
  /\ mrg' = [mrg EXCEPT !.i = 0, !.usedKeyNames = usedKeyNamesOf(mrg.existingKeys)]
  /\ pc' = "complete.new"
  /\ UNCHANGED <<options, project, baseline, usedKeys, gen, ext, val, dup, written, stats, call, fnd, process>>

\* Step 3: this.results.forEach((result) => ...)
MergeNewForEach ==
  /\ pc = "complete.new"
  /\ mrg.i < Len(results)
  /\ LET result == results[mrg.i + 1]
         ns == IF options.namespace THEN namespaceOf[result.file] ELSE ""
         baseKey == generateKeyOf[result.value]
         key == UniqueKey(mrg.usedKeyNames \cup MapKeys(mrg.newKeys), ns, baseKey)
         fullKey == FullKey(ns, key)
         entry == IF MapHas(mrg.newKeys, fullKey)
                  THEN MapGet(mrg.newKeys, fullKey)
                  ELSE [key |-> fullKey, value |-> result.value,
                        source |-> "hardcoded", locations |-> <<>>]
         pushed == [entry EXCEPT !.locations =
                      Append(entry.locations, [file |-> result.file, line |-> result.line])]
     IN mrg' = [mrg EXCEPT !.i = mrg.i + 1,
                           !.newKeys = MapSet(mrg.newKeys, fullKey, pushed),
                           !.assigned = Append(mrg.assigned, fullKey)]
  /\ UNCHANGED <<pc, options, project, baseline, results, usedKeys, gen, ext, val, dup, written, stats, call, fnd, process>>

\* Step 4: const allKeys = new Map([...existingKeys, ...newKeys])
MergeUnion ==
  /\ pc = "complete.new"
  /\ mrg.i = Len(results)
  /\ mrg' = [mrg EXCEPT !.i = 0, !.allKeys = MapUnion(mrg.existingKeys, mrg.newKeys)]
  /\ pc' = "complete.build"
  /\ UNCHANGED <<options, project, baseline, results, usedKeys, gen, ext, val, dup, written, stats, call, fnd, process>>

\* if (flat) translations[fullKey] = keyData.value; else nested.
MergeStore(translations, flat, fullKey, value) ==
  IF flat
  THEN Assign(translations, fullKey, Str(value))
  ELSE NestWithValue(translations, split(fullKey, "."), value)

\* allKeys.forEach((keyData, fullKey) => ...)
MergeBuildForEach ==
  /\ pc = "complete.build"
  /\ mrg.i < Len(mrg.allKeys)
  /\ LET fullKey == mrg.allKeys[mrg.i + 1].k
         keyData == mrg.allKeys[mrg.i + 1].v
         stored == MergeStore(mrg.translations, options.flat, fullKey, keyData.value)
     IN mrg' = [mrg EXCEPT !.i = mrg.i + 1, !.translations = stored.v]
  /\ UNCHANGED <<pc, options, project, baseline, results, usedKeys, gen, ext, val, dup, written, stats, call, fnd, process>>

\* fs.writeFileSync of the translation file, then of the keymap.
MergeWrite ==
  /\ pc = "complete.build"
  /\ mrg.i = Len(mrg.allKeys)
  /\ written' = [json |-> mrg.translations, keymap |-> mrg.allKeys]
  /\ pc' = "done"
  /\ UNCHANGED <<options, project, baseline, results, usedKeys, gen, mrg, ext, val, dup, stats, call, fnd, process>>

InitMerge ==
  /\ pc = "complete"
  /\ options \in [flat : BOOLEAN, namespace : BOOLEAN, placeholder : Placeholders]
  /\ project \in [keys : KeyUsageSeqs(MergeKeys, UsageFiles, MaxUsages),
                  strings : OccurrenceSeqs(MergeFiles, MergeValues, MaxHardcoded)]
  /\ baseline = None
  /\ results = <<>>
  /\ usedKeys = <<>>
  /\ gen = None /\ mrg = None /\ ext = None /\ val = None /\ dup = None /\ fnd = None
  /\ process = Started
  /\ written = None
  /\ stats = None /\ call = None

NextMerge ==
  \/ MergeScanKeys \/ MergeExistingForEach \/ MergeScanStrings
  \/ MergeNewForEach \/ MergeUnion \/ MergeBuildForEach \/ MergeWrite

SpecMerge == InitMerge /\ [][NextMerge]_vars

(***************************************************************************)
(* getTranslationKeys: the flattening of a parsed translation file.        *)
(***************************************************************************)
\* keys.add(fullKey) on a Set, kept in insertion order.
SetAdd(keys, k) == IF \E n \in 1..Len(keys) : keys[n] = k THEN keys ELSE Append(keys, k)

\* prefix ? `${prefix}.${key}` : key
Dotted(prefix, key) == IF prefix # "" THEN prefix \o "." \o key ELSE key

\* extractKeys(obj, prefix): the loop over Object.entries(obj) from entry n
\* on, adding to keys.  A string has no entries in the trees of the model.
RECURSIVE extractKeys(_, _, _, _)
extractKeys(entries, n, prefix, keys) ==
  IF n > Len(entries) THEN keys
  ELSE LET fullKey == Dotted(prefix, entries[n].k)
           value == entries[n].v
       IN extractKeys(entries, n + 1, prefix,
                      IF value.t = "object"
                      THEN extractKeys(value.e, 1, fullKey, keys)
                      ELSE SetAdd(keys, fullKey))

FlattenedKeys(tree) == extractKeys(tree.e, 1, "", <<>>)

Range(seq) == {seq[n] : n \in 1..Len(seq)}

(***************************************************************************)
(* extractKeysFromCode (Extract)                                           *)
(***************************************************************************)
\* this.usedKeys = []; await this.scanUsedKeys(rootPath); the early return.
ExtractScan ==
  /\ pc = "extract"
  /\ usedKeys' = project.keys
  /\ IF Len(project.keys) = 0
     THEN /\ pc' = "done"
          /\ ext' = ext
     ELSE /\ pc' = "extract.unique"
          /\ ext' = [i |-> 0, uniqueKeys |-> <<>>, translations |-> EmptyObject,
                     keyList |-> <<>>]
  /\ UNCHANGED <<options, project, baseline, results, gen, mrg, val, dup, written, stats, call, fnd, process>>

\* this.usedKeys.forEach((keyInfo) => ...)
ExtractUniqueForEach ==
  /\ pc = "extract.unique"
  /\ ext.i < Len(usedKeys)
  /\ LET keyInfo == usedKeys[ext.i + 1]
         entry == IF MapHas(ext.uniqueKeys, keyInfo.key)
                  THEN MapGet(ext.uniqueKeys, keyInfo.key)
                  ELSE [key |-> keyInfo.key, locations |-> <<>>]
         pushed == [entry EXCEPT !.locations =
                      Append(entry.locations, [file |-> keyInfo.file, line |-> keyInfo.line])]
     IN ext' = [ext EXCEPT !.i = ext.i + 1,
                           !.uniqueKeys = MapSet(ext.uniqueKeys, keyInfo.key, pushed)]
  /\ UNCHANGED <<pc, options, project, baseline, results, usedKeys, gen, mrg, val, dup, written, stats, call, fnd, process>>

ExtractUniqueDone ==
  /\ pc = "extract.unique"
  /\ ext.i = Len(usedKeys)
  /\ ext' = [ext EXCEPT !.i = 0]
  /\ pc' = "extract.build"
  /\ UNCHANGED <<options, project, baseline, results, usedKeys, gen, mrg, val, dup, written, stats, call, fnd, process>>

\* uniqueKeys.forEach((keyData, key) => ...)
ExtractBuildForEach ==
  /\ pc = "extract.build"
  /\ ext.i < Len(ext.uniqueKeys)
  /\ LET key == ext.uniqueKeys[ext.i + 1].k
         keyData == ext.uniqueKeys[ext.i + 1].v
         stored == NestWithValue(ext.translations, split(key, "."), options.placeholder)
     IN ext' = [ext EXCEPT !.i = ext.i + 1,
                           !.keyList = Append(ext.keyList, keyData),
                           !.translations = stored.v]
  /\ UNCHANGED <<pc, options, project, baseline, results, usedKeys, gen, mrg, val, dup, written, stats, call, fnd, process>>

\* fs.writeFileSync of the translation file and, if asked, of the locations.
ExtractWrite ==
  /\ pc = "extract.build"
  /\ ext.i = Len(ext.uniqueKeys)
  /\ written' = [json |-> ext.translations,
                 locations |-> IF options.includeLocations THEN ext.keyList ELSE None]
  /\ pc' = "done"
  /\ UNCHANGED <<options, project, baseline, results, usedKeys, gen, mrg, ext, val, dup, stats, call, fnd, process>>

\* The keys the translation calls of the project use.
ExtractKeys == {"a", "a.b", "a.b.c", "d"}

InitExtract ==
  /\ pc = "extract"
  /\ options \in [placeholder : Placeholders, includeLocations : BOOLEAN]
  /\ project \in [keys : KeyUsageSeqs(ExtractKeys, UsageFiles, MaxUsages), strings : {<<>>}]
  /\ baseline = None
  /\ results = <<>>
  /\ usedKeys = <<>>
  /\ gen = None /\ mrg = None /\ ext = None /\ val = None /\ dup = None /\ fnd = None
  /\ process = Started
  /\ written = None
  /\ stats = None /\ call = None

NextExtract ==
  \/ ExtractScan \/ ExtractUniqueForEach \/ ExtractUniqueDone
  \/ ExtractBuildForEach \/ ExtractWrite

SpecExtract == InitExtract /\ [][NextExtract]_vars

(***************************************************************************)
(* Translation files.  A file is missing, or holds text that JSON.parse    *)
(* rejects, or holds a JSON object, given here as parsed.                  *)
(***************************************************************************)
\* The path the command is given for the translation file.
TranslationPath == "locales/en.json"

\* console.log(chalk.red(`Translation file not found: ${translationPath}`))
NotFound(translationPath) ==
  [message |-> "Translation file not found", path |-> translationPath]
\* console.log(chalk.red(`Error parsing translation file: ${error.message}`)):
\* the message of the SyntaxError of JSON.parse tells the token and the
\* position in the text, and no path.
ParseError == [message |-> "Error parsing translation file", path |-> ""]
\* main().catch(console.error) on the SyntaxError of JSON.parse
UncaughtSyntaxError == [message |-> "SyntaxError", path |-> ""]

\* The process after one more line on the console.
Log(line) == [process EXCEPT !.console = Append(@, line)]

MissingFile == [exists |-> FALSE, valid |-> FALSE, tree |-> Undefined]
InvalidFile == [exists |-> TRUE, valid |-> FALSE, tree |-> Undefined]
JsonFile(tree) == [exists |-> TRUE, valid |-> TRUE, tree |-> tree]

\* The property lists that use a sub-sequence of keys, in that order, with
\* values from the given set.
RECURSIVE EntriesOver(_, _)
EntriesOver(keys, values) ==
  IF Len(keys) = 0 THEN {<<>>}
  ELSE LET rest == EntriesOver(Tail(keys), values)
       IN rest \cup {<<[k |-> Head(keys), v |-> v]>> \o r : v \in values, r \in rest}

\* The trees with leaves at the top level and one level down.
TreesOver(topKeys, subKeys, leaves) ==
  {Obj(e) : e \in EntriesOver(topKeys, leaves \cup {Obj(c) : c \in EntriesOver(subKeys, leaves)})}

(***************************************************************************)
(* validateKeys (Validate)                                                 *)
(***************************************************************************)
\* const definedKeys = this.getTranslationKeys(translationPath)
ValidateRead ==
  /\ pc = "validate"
  /\ IF ~baseline.exists
     THEN /\ pc' = "done"
          /\ val' = [definedKeys |-> None, result |-> None]
          /\ process' = Log(NotFound(TranslationPath))
     ELSE IF ~baseline.valid
     THEN \* JSON.parse throws out of getTranslationKeys, validateKeys and
          \* main, whose catch prints the error
          /\ pc' = "threw"
          /\ val' = [definedKeys |-> None, result |-> None]
          /\ process' = Log(UncaughtSyntaxError)
     ELSE /\ pc' = "validate.scan"
          /\ val' = [definedKeys |-> FlattenedKeys(baseline.tree), result |-> None]
          /\ process' = process
  /\ UNCHANGED <<options, project, baseline, results, usedKeys, gen, mrg, ext, dup, written, stats, call, fnd>>

\* await this.scanUsedKeys(rootPath): the usages found are pushed onto
\* this.usedKeys, which is not emptied first.
ValidateScan ==
  /\ pc = "validate.scan"
  /\ usedKeys' = usedKeys \o project.keys
  /\ pc' = "validate.analyze"
  /\ UNCHANGED <<options, project, baseline, results, gen, mrg, ext, val, dup, written, stats, call, fnd, process>>

\* this.usedKeys.forEach: the usages whose key is not defined.
MissingKeys(used, definedKeys) ==
  SelectSeq(used, LAMBDA keyInfo : keyInfo.key \notin Range(definedKeys))

\* The loop below with its test inverted.
UsedDefinedKeys(definedKeys, usedKeySet) ==
  SelectSeq(definedKeys, LAMBDA key : key \in usedKeySet)

\* definedKeys.forEach: the defined keys that are not used.
UnusedKeys(definedKeys, usedKeySet) ==
  SelectSeq(definedKeys, LAMBDA key : key \notin usedKeySet)

ValidateAnalyze ==
  /\ pc = "validate.analyze"
  /\ LET usedKeySet == {usedKeys[n].key : n \in 1..Len(usedKeys)}
     IN val' = [val EXCEPT !.result =
                  [definedKeys |-> val.definedKeys,
                   usedKeys |-> usedKeySet,
                   missingKeys |-> MissingKeys(usedKeys, val.definedKeys),
                   unusedKeys |-> UnusedKeys(val.definedKeys, usedKeySet)]]
  /\ pc' = "done"
  /\ UNCHANGED <<options, project, baseline, results, usedKeys, gen, mrg, ext, dup, written, stats, call, fnd, process>>

\* The translation files and the used keys of a Validate run.
ValidateTopKeys == <<"a", "a.b">>
ValidateSubKeys == <<"b", "c">>
ValidateLeaves == {Str("Cancel"), NonString}
ValidateKeys == {"a", "a.b", "a.d"}
ValidateFiles ==
  {MissingFile, InvalidFile}
  \cup {JsonFile(t) : t \in TreesOver(ValidateTopKeys, ValidateSubKeys, ValidateLeaves)}

InitValidate ==
  /\ pc = "validate"
  /\ options = None
  /\ project \in [keys : KeyUsageSeqs(ValidateKeys, UsageFiles, MaxUsages), strings : {<<>>}]
  /\ baseline \in ValidateFiles
  /\ results = <<>>
  /\ usedKeys = <<>>
  /\ gen = None /\ mrg = None /\ ext = None /\ val = None /\ dup = None /\ fnd = None
  /\ process = Started
  /\ written = None
  /\ stats = None /\ call = None

NextValidate == ValidateRead \/ ValidateScan \/ ValidateAnalyze

SpecValidate == InitValidate /\ [][NextValidate]_vars

(***************************************************************************)
(* checkDuplicateKeys (Duplicate check)                                    *)
(***************************************************************************)
\* !table[k] for a table that is an object literal holding objects or arrays:
\* false for an own property and for a member inherited from Object.prototype.
Absent(table, k) == ~HasOwn(table, k) /\ k \notin ObjectPrototype

\* findDuplicatesInObject(obj, prefix): the loop over Object.entries(obj) from
\* entry n on.  acc holds keyOccurrences and duplicates.
RECURSIVE findDuplicatesInObject(_, _, _, _)
findDuplicatesInObject(entries, n, prefix, acc) ==
  IF n > Len(entries) THEN acc
  ELSE LET fullKey == Dotted(prefix, entries[n].k)
           value == entries[n].v
           counted ==
             IF Absent(acc.keyOccurrences, fullKey)
             THEN [acc EXCEPT !.keyOccurrences =
                     Put(acc.keyOccurrences, fullKey, [count |-> 1, value |-> value])]
             ELSE LET own == HasOwn(acc.keyOccurrences, fullKey)
                      seen == IF own
                              THEN acc.keyOccurrences[OwnIndex(acc.keyOccurrences, fullKey)].v
                              ELSE [count |-> 0, value |-> Undefined]
                  IN [keyOccurrences |->
                        IF own
                        THEN Put(acc.keyOccurrences, fullKey,
                                 [seen EXCEPT !.count = seen.count + 1])
                        ELSE acc.keyOccurrences,
                      duplicates |->
                        Append(acc.duplicates,
                               [key |-> fullKey, value |-> value,
                                existingValue |-> seen.value])]
       IN findDuplicatesInObject(entries, n + 1, prefix,
            IF value.t = "object"
            THEN findDuplicatesInObject(value.e, 1, fullKey, counted)
            ELSE counted)

\* collectValues(obj, prefix): the loop over Object.entries(obj) from entry n
\* on.  acc holds valueToKeys and whether push threw: valueToKeys[value] is
\* then a member inherited from Object.prototype, which has no push.
RECURSIVE collectValues(_, _, _, _)
collectValues(entries, n, prefix, acc) ==
  IF n > Len(entries) \/ acc.threw THEN acc
  ELSE LET fullKey == Dotted(prefix, entries[n].k)
           value == entries[n].v
           made == IF Absent(acc.valueToKeys, value.s)
                   THEN Put(acc.valueToKeys, value.s, <<>>)
                   ELSE acc.valueToKeys
       IN collectValues(entries, n + 1, prefix,
            IF value.t = "string"
            THEN IF HasOwn(made, value.s)
                 THEN [acc EXCEPT !.valueToKeys =
                         Put(made, value.s, Append(made[OwnIndex(made, value.s)].v, fullKey))]
                 ELSE [acc EXCEPT !.threw = TRUE]
            ELSE IF value.t = "object"
            THEN collectValues(value.e, 1, fullKey, acc)
            ELSE acc)

\* Object.entries(valueToKeys).filter(([_, keys]) => keys.length > 1).map(...)
duplicateValuesOf(valueToKeys) ==
  LET many == SelectSeq(valueToKeys, LAMBDA entry : Len(entry.v) > 1)
  IN [n \in 1..Len(many) |-> [value |-> many[n].k, keys |-> many[n].v]]

\* if (!fs.existsSync(translationPath)) return null; fs.readFileSync
DupRead ==
  /\ pc = "duplicates"
  /\ IF ~baseline.exists
     THEN /\ pc' = "done"
          /\ dup' = [duplicates |-> <<>>, valueToKeys |-> <<>>, result |-> None]
          /\ process' = Log(NotFound(TranslationPath))
     ELSE /\ pc' = "duplicates.find"
          /\ dup' = [duplicates |-> <<>>, valueToKeys |-> <<>>, result |-> None]
          /\ process' = process
  /\ UNCHANGED <<options, project, baseline, results, usedKeys, gen, mrg, ext, val, written, stats, call, fnd>>

\* try { JSON.parse; findDuplicatesInObject(translations) } catch { return null }
DupFind ==
  /\ pc = "duplicates.find"
  /\ IF ~baseline.valid
     THEN /\ pc' = "done"
          /\ dup' = dup
          /\ process' = Log(ParseError)
     ELSE /\ pc' = "duplicates.collect"
          /\ dup' = [dup EXCEPT !.duplicates =
                       findDuplicatesInObject(baseline.tree.e, 1, "",
                         [keyOccurrences |-> <<>>, duplicates |-> <<>>]).duplicates]
          /\ process' = process
  /\ UNCHANGED <<options, project, baseline, results, usedKeys, gen, mrg, ext, val, written, stats, call, fnd>>

\* collectValues(JSON.parse(content))
DupCollect ==
  /\ pc = "duplicates.collect"
  /\ LET collected == collectValues(baseline.tree.e, 1, "",
                                    [valueToKeys |-> <<>>, threw |-> FALSE])
     IN IF collected.threw
        THEN /\ pc' = "threw"
             /\ dup' = dup
        ELSE /\ pc' = "duplicates.report"
             /\ dup' = [dup EXCEPT !.valueToKeys = collected.valueToKeys]
  /\ UNCHANGED <<options, project, baseline, results, usedKeys, gen, mrg, ext, val, written, stats, call, fnd, process>>

\* return { duplicateKeys: duplicates, duplicateValues }
DupReport ==
  /\ pc = "duplicates.report"
  /\ dup' = [dup EXCEPT !.result = [duplicateKeys |-> dup.duplicates,
                                    duplicateValues |-> duplicateValuesOf(dup.valueToKeys)]]
  /\ pc' = "done"
  /\ UNCHANGED <<options, project, baseline, results, usedKeys, gen, mrg, ext, val, written, stats, call, fnd, process>>

\* The translation files of a Duplicate check.
DupTopKeys == <<"a", "b", "a.b", "toString">>
DupSubKeys == <<"b">>
DupLeaves == {Str("Cancel"), Str("OK"), Str("constructor")}
DupFiles ==
  {MissingFile, InvalidFile}
  \cup {JsonFile(t) : t \in TreesOver(DupTopKeys, DupSubKeys, DupLeaves)}

InitDup ==
  /\ pc = "duplicates"
  /\ options = None
  /\ project = None
  /\ baseline \in DupFiles
  /\ results = <<>>
  /\ usedKeys = <<>>
  /\ gen = None /\ mrg = None /\ ext = None /\ val = None /\ dup = None /\ fnd = None
  /\ process = Started
  /\ written = None
  /\ stats = None /\ call = None

NextDup == DupRead \/ DupFind \/ DupCollect \/ DupReport

SpecDup == InitDup /\ [][NextDup]_vars

(***************************************************************************)
(* The filters of addResult.                                               *)
(***************************************************************************)
StartsWith(s, prefix) ==
  Len(s) >= Len(prefix) /\ SubSeq(s, 1, Len(prefix)) = prefix

Contains(s, part) ==
  \E i \in 1..(Len(s) - Len(part) + 1) : SubSeq(s, i, i + Len(part) - 1) = part

\* every character of s is one of chars: /^[chars]*$/
AllChars(s, chars) == \A i \in 1..Len(s) : IndexIn(Ch(s, i), chars) > 0

\* /^\d+<unit>$/ on a lower-cased or case-sensitive text
DigitsThen(s, unit) ==
  /\ Len(s) > Len(unit)
  /\ EndsWith(s, unit)
  /\ AllChars(SubSeq(s, 1, Len(s) - Len(unit)), Digits)

HexMin == 3
HexMax == 8

\* this.config.excludeStringPatterns.some(pattern => pattern.test(value))
excludeStringPatterns(value) ==
  \/ Len(value) >= 1 /\ IsLower(Ch(value, 1)) /\ AllChars(value, LowerAlpha \o UpperAlpha \o Digits)
  \/ Len(value) >= 1 /\ AllChars(value, UpperAlpha \o "_")
  \/ /\ StartsWith(value, "#")
     /\ Len(value) - 1 >= HexMin /\ Len(value) - 1 <= HexMax
     /\ AllChars(Tail(value), Digits \o "abcdefABCDEF")
  \/ StartsWith(toLowerCase(value), "rgb(") \/ StartsWith(toLowerCase(value), "rgba(")
  \/ StartsWith(toLowerCase(value), "http://") \/ StartsWith(toLowerCase(value), "https://")
  \/ StartsWith(value, "./") \/ StartsWith(value, "../")
  \/ StartsWith(value, "/")
  \/ StartsWith(value, "@")
  \/ StartsWith(value, "data:")
  \/ DigitsThen(toLowerCase(value), "px")
  \/ DigitsThen(value, "%")
  \/ value \in {"<", ">", "<=", ">="}
  \/ AllChars(value, " \t\n")

\* this.config.i18nPatterns.some(pattern => pattern.test(value))
i18nPatterns(value) ==
  \/ StartsWith(value, "t(")
  \/ StartsWith(value, "i18n.")
  \/ Contains(value, "translate(")
  \/ StartsWith(value, "intl.")
  \/ Contains(value, "formatMessage(")
  \/ StartsWith(value, "__(")
  \/ StartsWith(value, "_(")

\* shouldExcludeString without the minimum length.
ExcludedByPattern(value, minStringLength) ==
  value = "" \/ excludeStringPatterns(value)

\* The values handed to addResult are strings; the empty one is falsy.
shouldExcludeString(value, minStringLength) ==
  \/ value = ""
  \/ Len(trim(value)) < minStringLength
  \/ excludeStringPatterns(value)

isI18nString(value) == value = "" \/ i18nPatterns(value)

i18nFunctionNames == {"useTranslation", "useIntl", "withTranslation", "t", "translate", "__", "_"}

excludeAttributeNames ==
  {"testID", "accessibilityLabel", "accessibilityHint", "key", "ref", "style",
   "className", "id", "type", "name", "value", "defaultValue", "href", "src",
   "alt", "role", "aria-label", "aria-describedby", "data-testid", "as"}

(***************************************************************************)
(* Syntax trees.  A node has its Babel type, the name it carries (of an    *)
(* identifier, a JSX attribute or element, a declarator, a method), the    *)
(* value of a literal or a JSX text, the cooked quasis of a template       *)
(* literal, and its child nodes in traversal order.                        *)
(***************************************************************************)
Node(type, name, value, quasis, kids) ==
  [type |-> type, name |-> name, value |-> value, quasis |-> quasis, kids |-> kids]

Identifier(name) == Node("Identifier", name, "", <<>>, <<>>)
StringLiteral(value) == Node("StringLiteral", "", value, <<>>, <<>>)
\* quasis has one more element than expressions
TemplateLiteral(quasis, expressions) == Node("TemplateLiteral", "", "", quasis, expressions)
JSXText(value) == Node("JSXText", "", value, <<>>, <<>>)
\* name="..." or name={...}, or the bare name
JSXAttribute(name, value) == Node("JSXAttribute", name, "", <<>>, value)
JSXExpressionContainer(expression) == Node("JSXExpressionContainer", "", "", <<>>, <<expression>>)
\* the attributes of the opening element, then the children
JSXElement(name, attributes, children) == Node("JSXElement", name, "", <<>>, attributes \o children)
\* callee, then the arguments
CallExpression(callee, arguments) == Node("CallExpression", "", "", <<>>, <<callee>> \o arguments)
\* object.property
MemberExpression(object, property) == Node("MemberExpression", "", "", <<>>, <<object, property>>)
ConditionalExpression(test, consequent, alternate) ==
  Node("ConditionalExpression", "", "", <<>>, <<test, consequent, alternate>>)
ArrayExpression(elements) == Node("ArrayExpression", "", "", <<>>, elements)
ArrowFunctionExpression(body) == Node("ArrowFunctionExpression", "", "", <<>>, <<body>>)
BlockStatement(body) == Node("BlockStatement", "", "", <<>>, body)
ReturnStatement(argument) == Node("ReturnStatement", "", "", <<>>, <<argument>>)
\* const <name> = <init>
VariableDeclarator(name, init) == Node("VariableDeclarator", name, "", <<>>, <<init>>)
ClassMethod(name, body) == Node("ClassMethod", name, "", <<>>, <<body>>)
File(body) == Node("File", "", "", <<>>, body)

\* The path of a node: the node, then its ancestors from the parent outwards.
PathOf(node, ancestors) == <<node>> \o ancestors

\* t.isCallExpression(current.node) with a callee that is one of the
\* translation functions, as an identifier or as the property of a member
\* expression.
IsI18nCallNode(node) ==
  /\ node.type = "CallExpression"
  /\ LET callee == node.kids[1]
     IN \/ callee.type = "Identifier" /\ callee.name \in i18nFunctionNames
        \/ /\ callee.type = "MemberExpression"
           /\ callee.kids[2].type = "Identifier"
           /\ callee.kids[2].name \in i18nFunctionNames

\* The loop of isInsideI18nCall from element n of the path on.
RECURSIVE InsideI18nCallFrom(_, _)
InsideI18nCallFrom(path, n) ==
  IF n > Len(path) THEN FALSE
  ELSE IF IsI18nCallNode(path[n]) THEN TRUE
  ELSE InsideI18nCallFrom(path, n + 1)

\* The test on the node and its parent only.
ParentIsI18nCall(path) ==
  \E n \in 1..Len(path) : n <= 2 /\ IsI18nCallNode(path[n])

isInsideI18nCall(path) == InsideI18nCallFrom(path, 1)

isInsideJSX(path) ==
  \E n \in 1..Len(path) :
    path[n].type \in {"JSXElement", "JSXFragment", "JSXExpressionContainer"}

IsCapitalized(name) == Len(name) >= 1 /\ IsUpper(Ch(name, 1))

\* The loop of isLikelyRenderFunction, which starts at the parent path.
isLikelyRenderFunction(path) ==
  \E n \in 2..Len(path) :
    \/ /\ path[n].type \in {"ArrowFunctionExpression", "FunctionDeclaration"}
       /\ \/ /\ n < Len(path)
             /\ path[n + 1].type = "VariableDeclarator"
             /\ IsCapitalized(path[n + 1].name)
          \/ path[n].type = "FunctionDeclaration" /\ IsCapitalized(path[n].name)
    \/ path[n].type = "ClassMethod" /\ StartsWith(path[n].name, "render")

\* The nearest JSX element's name in angle brackets, or ''.
getContextSnippet(path) ==
  LET found == {n \in 1..Len(path) : path[n].type \in {"JSXElement", "JSXFragment"}}
  IN IF found = {} THEN ""
     ELSE LET nearest == CHOOSE n \in found : \A m \in found : n <= m
          IN IF path[nearest].type = "JSXElement"
             THEN "<" \o path[nearest].name \o ">"
             ELSE ""

NoStats == [filesScanned |-> 0, filesWithIssues |-> 0, totalStrings |-> 0,
            stringsByType |-> <<>>]

\* (this.stats.stringsByType[type] || 0) + 1
CountOfType(stringsByType, type) ==
  IF HasOwn(stringsByType, type) THEN stringsByType[OwnIndex(stringsByType, type)].v ELSE 0

\* addResult without the count by type.
addResultUntyped(acc, config, filePath, value, type, context) ==
  IF shouldExcludeString(value, config.minStringLength) THEN acc
  ELSE IF isI18nString(value) THEN acc
  ELSE [results |-> Append(acc.results,
                           [file |-> filePath, line |-> Len(acc.results) + 1,
                            value |-> trim(value), type |-> type, context |-> context]),
        stats |-> [acc.stats EXCEPT !.totalStrings = @ + 1]]

\* addResult on this.results and this.stats, held in acc.  The line of an
\* occurrence stands for its position in this.results; the context of an
\* attribute is written without its double quotes, which the strings of the
\* model do not contain.
addResult(acc, config, filePath, value, type, context) ==
  IF shouldExcludeString(value, config.minStringLength) THEN acc
  ELSE IF isI18nString(value) THEN acc
  ELSE [results |-> Append(acc.results,
                           [file |-> filePath, line |-> Len(acc.results) + 1,
                            value |-> trim(value), type |-> type, context |-> context]),
        stats |-> [acc.stats EXCEPT
                     !.totalStrings = @ + 1,
                     !.stringsByType = Put(@, type, CountOfType(@, type) + 1)]]

\* The JSXText visitor.
VisitJSXText(acc, config, filePath, path) ==
  LET value == trim(path[1].value)
  IN IF value # "" /\ ~isInsideI18nCall(path)
     THEN addResult(acc, config, filePath, value, "JSX Text", getContextSnippet(path))
     ELSE acc

\* The JSXAttribute visitor.  Returning for an excluded name does not keep
\* the traversal from visiting the attribute's value.
VisitJSXAttribute(acc, config, filePath, path) ==
  LET attributeName == path[1].name
      value == path[1].kids
  IN IF attributeName \in excludeAttributeNames THEN acc
     ELSE IF Len(value) = 0 THEN acc
     ELSE IF value[1].type = "StringLiteral"
     THEN IF ~isInsideI18nCall(path)
          THEN addResult(acc, config, filePath, value[1].value, "JSX Attribute",
                         attributeName \o "=" \o value[1].value)
          ELSE acc
     ELSE IF /\ value[1].type = "JSXExpressionContainer"
             /\ value[1].kids[1].type = "StringLiteral"
             /\ ~isInsideI18nCall(path)
     THEN addResult(acc, config, filePath, value[1].kids[1].value,
                    "JSX Attribute Expression",
                    attributeName \o "={" \o value[1].kids[1].value \o "}")
     ELSE acc

\* path.node.quasis.forEach from quasi n on.
RECURSIVE QuasisForEach(_, _, _, _, _)
QuasisForEach(acc, config, filePath, path, n) ==
  IF n > Len(path[1].quasis) THEN acc
  ELSE LET value == path[1].quasis[n]
       IN QuasisForEach(
            IF value # "" /\ trim(value) # ""
            THEN addResult(acc, config, filePath, value, "Template Literal in JSX",
                           getContextSnippet(path))
            ELSE acc,
            config, filePath, path, n + 1)

\* The TemplateLiteral visitor.
VisitTemplateLiteral(acc, config, filePath, path) ==
  IF isInsideJSX(path) /\ ~isInsideI18nCall(path)
  THEN QuasisForEach(acc, config, filePath, path, 1)
  ELSE acc

\* The JSXExpressionContainer visitor.
VisitJSXExpressionContainer(acc, config, filePath, path) ==
  IF path[1].kids[1].type = "StringLiteral" /\ ~isInsideI18nCall(path)
  THEN addResult(acc, config, filePath, path[1].kids[1].value, "JSX Expression",
                 getContextSnippet(path))
  ELSE acc

\* [argument.consequent, argument.alternate].forEach from branch n on.
RECURSIVE BranchesForEach(_, _, _, _, _)
BranchesForEach(acc, config, filePath, path, n) ==
  IF n > 3 THEN acc
  ELSE LET node == path[1].kids[1].kids[n]
       IN BranchesForEach(
            IF node.type = "StringLiteral" /\ ~isInsideI18nCall(path)
            THEN addResult(acc, config, filePath, node.value, "Conditional Return",
                           "Ternary expression")
            ELSE acc,
            config, filePath, path, n + 1)

checkReturnedStrings(acc, config, filePath, path) ==
  LET argument == path[1].kids[1]
  IN IF argument.type = "StringLiteral"
     THEN IF ~isInsideI18nCall(path)
          THEN addResult(acc, config, filePath, argument.value, "Return Statement",
                         "Direct string return")
          ELSE acc
     ELSE IF argument.type = "ConditionalExpression"
     THEN BranchesForEach(acc, config, filePath, path, 2)
     ELSE acc

\* The ReturnStatement visitor.
VisitReturnStatement(acc, config, filePath, path) ==
  IF isLikelyRenderFunction(path)
  THEN checkReturnedStrings(acc, config, filePath, path)
  ELSE acc

\* The visitors without the one of JSXText.
VisitButText(acc, config, filePath, path) ==
  CASE path[1].type = "JSXAttribute" -> VisitJSXAttribute(acc, config, filePath, path)
    [] path[1].type = "TemplateLiteral" -> VisitTemplateLiteral(acc, config, filePath, path)
    [] path[1].type = "JSXExpressionContainer" ->
         VisitJSXExpressionContainer(acc, config, filePath, path)
    [] path[1].type = "ReturnStatement" -> VisitReturnStatement(acc, config, filePath, path)
    [] OTHER -> acc

\* The visitor of the node's type, if there is one.
Visit(acc, config, filePath, path) ==
  CASE path[1].type = "JSXText" -> VisitJSXText(acc, config, filePath, path)
    [] path[1].type = "JSXAttribute" -> VisitJSXAttribute(acc, config, filePath, path)
    [] path[1].type = "TemplateLiteral" -> VisitTemplateLiteral(acc, config, filePath, path)
    [] path[1].type = "JSXExpressionContainer" ->
         VisitJSXExpressionContainer(acc, config, filePath, path)
    [] path[1].type = "ReturnStatement" -> VisitReturnStatement(acc, config, filePath, path)
    [] OTHER -> acc

\* traverse: the visitor on entering the node, then the children in order.
RECURSIVE Traverse(_, _, _, _)
RECURSIVE TraverseKids(_, _, _, _, _)
Traverse(acc, config, filePath, path) ==
  TraverseKids(Visit(acc, config, filePath, path), config, filePath, path, 1)
TraverseKids(acc, config, filePath, path, n) ==
  IF n > Len(path[1].kids) THEN acc
  ELSE TraverseKids(Traverse(acc, config, filePath, PathOf(path[1].kids[n], path)),
                    config, filePath, path, n + 1)

(***************************************************************************)
(* parseFile and scanProject (Classification)                              *)
(***************************************************************************)
\* A file that parser.parse rejects.
Unparsable == Node("SyntaxError", "", "", <<>>, <<>>)

\* parseFile with the file counted as scanned before it is read and parsed.
parseFileCountedFirst(acc, config, file) ==
  LET entered == [acc EXCEPT !.stats.filesScanned = @ + 1]
  IN IF file.ast = Unparsable THEN entered
     ELSE LET traversed == Traverse(entered, config, file.path, <<file.ast>>)
          IN IF traversed.stats.totalStrings > acc.stats.totalStrings
             THEN [traversed EXCEPT !.stats.filesWithIssues = @ + 1]
             ELSE traversed

\* parseFile(filePath): the catch logs the error of a file that does not
\* parse, before any counter has changed.
parseFile(acc, config, file) ==
  IF file.ast = Unparsable THEN acc
  ELSE LET entered == [acc EXCEPT !.stats.filesScanned = @ + 1]
           traversed == Traverse(entered, config, file.path, <<file.ast>>)
       IN IF traversed.stats.totalStrings > acc.stats.totalStrings
          THEN [traversed EXCEPT !.stats.filesWithIssues = @ + 1]
          ELSE traversed

\* files.forEach((file) => this.parseFile(file)) from file n on.
RECURSIVE ParseFiles(_, _, _, _)
ParseFiles(acc, config, files, n) ==
  IF n > Len(files) THEN acc
  ELSE ParseFiles(parseFile(acc, config, files[n]), config, files, n + 1)

\* The default mode of main with --generate: scanProject, then
\* generateI18nFile on what it found.
ScanProject ==
  /\ pc = "scan"
  /\ LET scanned == ParseFiles([results |-> results, stats |-> stats],
                               options.config, project.files, 1)
     IN /\ results' = scanned.results
        /\ stats' = scanned.stats
  /\ pc' = "generate"
  /\ UNCHANGED <<options, project, baseline, usedKeys, gen, mrg, ext, val, dup, written, call, fnd, process>>

(***************************************************************************)
(* extractUsedKeys and scanUsedKeys (Key-usage extraction)                 *)
(***************************************************************************)
\* The visitor without the test of the callee.
VisitAnyCall(keys, filePath, node) ==
  LET arguments == Tail(node.kids)
      used(key) == [key |-> key, file |-> filePath, line |-> Len(keys) + 1, function |-> ""]
  IN IF Len(arguments) > 0 /\ arguments[1].type = "StringLiteral"
     THEN Append(keys, used(arguments[1].value))
     ELSE keys

\* The CallExpression visitor of extractUsedKeys.
VisitCallExpression(keys, filePath, node) ==
  LET callee == node.kids[1]
      arguments == Tail(node.kids)
      direct == callee.type = "Identifier" /\ callee.name \in i18nFunctionNames
      member == /\ callee.type = "MemberExpression"
                /\ callee.kids[2].type = "Identifier"
                /\ callee.kids[2].name \in i18nFunctionNames
      functionName == IF member THEN callee.kids[2].name ELSE callee.name
      used(key) == [key |-> key, file |-> filePath, line |-> Len(keys) + 1,
                    function |-> functionName]
  IN IF (direct \/ member) /\ Len(arguments) > 0
     THEN LET firstArg == arguments[1]
          IN IF firstArg.type = "StringLiteral"
             THEN Append(keys, used(firstArg.value))
             ELSE IF firstArg.type = "TemplateLiteral" /\ Len(firstArg.kids) = 0
             THEN Append(keys, used(firstArg.quasis[1]))
             ELSE keys
     ELSE keys

\* traverse of extractUsedKeys: the visitor on entering a call, then the
\* children in order.
RECURSIVE TraverseCalls(_, _, _)
RECURSIVE TraverseCallsKids(_, _, _, _)
TraverseCalls(keys, filePath, node) ==
  TraverseCallsKids(IF node.type = "CallExpression"
                    THEN VisitCallExpression(keys, filePath, node)
                    ELSE keys,
                    filePath, node, 1)
TraverseCallsKids(keys, filePath, node, n) ==
  IF n > Len(node.kids) THEN keys
  ELSE TraverseCallsKids(TraverseCalls(keys, filePath, node.kids[n]), filePath, node, n + 1)

\* extractUsedKeys(filePath): a file that does not parse is skipped.
extractUsedKeys(keys, file) ==
  IF file.ast = Unparsable THEN keys ELSE TraverseCalls(keys, file.path, file.ast)

\* files.forEach((file) => this.extractUsedKeys(file)) from file n on.
RECURSIVE ExtractFiles(_, _, _)
ExtractFiles(keys, files, n) ==
  IF n > Len(files) THEN keys
  ELSE ExtractFiles(extractUsedKeys(keys, files[n]), files, n + 1)

\* scanUsedKeys(rootPath)
ScanUsedKeys ==
  /\ pc = "usage"
  /\ usedKeys' = ExtractFiles(usedKeys, project.files, 1)
  /\ pc' = "done"
  /\ UNCHANGED <<options, project, baseline, results, gen, mrg, ext, val, dup, written, stats, call, fnd, process>>

(***************************************************************************)
(* The scanned files of the model.                                         *)
(***************************************************************************)
MaxDepth == 2

ScanAttributeNames == {"title", "testID"}

Text(child) == JSXElement("Text", <<>>, <<child>>)
Button(attribute) == JSXElement("Button", <<attribute>>, <<>>)
Ternary(value) ==
  ConditionalExpression(Identifier("loggedIn"), StringLiteral(value), StringLiteral(OtherBranch))

\* One literal in each of the shapes a JSX element holds it in.
JSXSites ==
  UNION {
    {Text(JSXText(value)),
     Text(JSXExpressionContainer(StringLiteral(value))),
     Text(JSXExpressionContainer(TemplateLiteral(<<value>>, <<>>))),
     Text(JSXExpressionContainer(TemplateLiteral(<<value, "">>, <<Identifier("name")>>))),
     Text(JSXExpressionContainer(Ternary(value)))}
    \cup UNION {
      {Button(JSXAttribute(name, <<StringLiteral(value)>>)),
       Button(JSXAttribute(name, <<JSXExpressionContainer(StringLiteral(value))>>)),
       Button(JSXAttribute(name, <<JSXExpressionContainer(TemplateLiteral(<<value>>, <<>>))>>))}
      : name \in ScanAttributeNames}
    : value \in ScanTexts}

\* One literal returned from a function.
ReturnSites ==
  UNION {
    {ArrowFunctionExpression(BlockStatement(<<ReturnStatement(StringLiteral(value))>>)),
     ArrowFunctionExpression(BlockStatement(<<ReturnStatement(Ternary(value))>>))}
    : value \in ScanTexts}

\* The calls of a function with the first argument in each of its forms.
Callees ==
  {Identifier("t"), MemberExpression(Identifier("i18n"), Identifier("t")),
   Identifier("format"), MemberExpression(Identifier("i18n"), Identifier("format"))}
ArgumentLists ==
  {<<>>, <<Identifier("key")>>}
  \cup UNION {{<<StringLiteral(key)>>,
               <<StringLiteral(key), Identifier("params")>>,
               <<TemplateLiteral(<<key>>, <<>>)>>,
               <<TemplateLiteral(<<key, "">>, <<Identifier("name")>>)>>} : key \in ScanKeys}
CallTrees == {Text(JSXExpressionContainer(CallExpression(callee, arguments))) :
                 callee \in Callees, arguments \in ArgumentLists}

\* What separates a site from the function that returns it.
WrapKinds == {"t", "i18n.t", "format", "arrow", "element"}

Child(expression) ==
  IF expression.type = "JSXElement" THEN expression ELSE JSXExpressionContainer(expression)

Wrap(kind, expression) ==
  CASE kind = "t" -> CallExpression(Identifier("t"), <<expression>>)
    [] kind = "i18n.t" ->
         CallExpression(MemberExpression(Identifier("i18n"), Identifier("t")), <<expression>>)
    [] kind = "format" -> CallExpression(Identifier("format"), <<expression>>)
    [] kind = "arrow" -> ArrowFunctionExpression(expression)
    [] kind = "element" -> JSXElement("View", <<>>, <<Child(expression)>>)

\* The site wrapped by the kinds of the chain, the first one innermost.
RECURSIVE Wrapped(_, _)
Wrapped(expression, chain) ==
  IF Len(chain) = 0 THEN expression
  ELSE Wrapped(Wrap(Head(chain), expression), Tail(chain))

\* const App = () => { return <expression>; }
Component(expression) ==
  File(<<VariableDeclarator("App",
           ArrowFunctionExpression(BlockStatement(<<ReturnStatement(expression)>>)))>>)

\* <View><Text>Welcome to the App</Text><Button title="Click Me" /></View>
ExampleFile ==
  Component(JSXElement("View", <<>>,
              <<Text(JSXText("Welcome to the App")),
                Button(JSXAttribute("title", <<StringLiteral("Click Me")>>))>>))

ScannedTrees ==
  {Unparsable, ExampleFile}
  \cup {Component(Wrapped(site, chain)) :
          site \in JSXSites \cup ReturnSites, chain \in SeqsUpTo(WrapKinds, MaxDepth)}

UsageTrees ==
  {Unparsable}
  \cup {Component(Wrapped(site, chain)) :
          site \in CallTrees, chain \in SeqsUpTo(WrapKinds, MaxDepth)}

MinLengths == {2, 4}

InitScan ==
  /\ pc = "scan"
  /\ options \in [flat : {FALSE}, namespace : {TRUE},
                  config : [minStringLength : MinLengths]]
  /\ project \in [files : {<<[path |-> path, ast |-> ast]>> :
                             path \in ScanFiles, ast \in ScannedTrees}]
  /\ baseline = None
  /\ results = <<>>
  /\ usedKeys = <<>>
  /\ gen = None /\ mrg = None /\ ext = None /\ val = None /\ dup = None /\ fnd = None
  /\ process = Started
  /\ written = None
  /\ stats = NoStats /\ call = None

NextScan == ScanProject \/ NextGenerate

SpecScan == InitScan /\ [][NextScan]_vars

InitUsage ==
  /\ pc = "usage"
  /\ options = None
  /\ project \in [files : {<<[path |-> path, ast |-> ast]>> :
                             path \in ScanFiles, ast \in UsageTrees}]
  /\ baseline = None
  /\ results = <<>>
  /\ usedKeys = <<>>
  /\ gen = None /\ mrg = None /\ ext = None /\ val = None /\ dup = None /\ fnd = None
  /\ process = Started
  /\ written = None
  /\ stats = None /\ call = None

NextUsage == ScanUsedKeys

SpecUsage == InitUsage /\ [][NextUsage]_vars

(***************************************************************************)
(* Calls of generateKey and of getNamespaceFromPath on their own.          *)
(***************************************************************************)
MaxLen == 3
MaxDirs == 2

RECURSIVE StringsOfLen(_, _)
StringsOfLen(alphabet, n) ==
  IF n = 0 THEN {""} ELSE {c \o s : c \in alphabet, s \in StringsOfLen(alphabet, n - 1)}

RECURSIVE Repeat(_, _)
Repeat(s, n) == IF n = 0 THEN "" ELSE s \o Repeat(s, n - 1)

\* The values generateKey is called with: all short strings over a few
\* characters, and strings around the maximum key length.
KeyAlphabet == {"a", "b", "B", " ", "!", "@"}
LongValues ==
  {Repeat("a", MaxKeyLen) \o "b", Repeat("a", MaxKeyLen) \o "c",
   Repeat("a", MaxKeyLen - 1) \o " b", Repeat("ab ", 14)}
KeyValues == UNION {StringsOfLen(KeyAlphabet, n) : n \in 0..MaxLen} \cup LongValues
\* The values of a second call.
OtherValues == {"ab", "a b", "b!", "AB", "text 2db", Repeat("a", MaxKeyLen) \o "c"}
Contexts == {"", "<Text>"}

\* this.generateKey(value, context): the context is not used.
GenerateKeyCall ==
  /\ pc = "generateKey"
  /\ call' = [call EXCEPT !.ret = generateKey(call.value)]
  /\ pc' = "generateKey.again"
  /\ UNCHANGED <<options, project, baseline, results, usedKeys, gen, mrg, ext, val, dup, written, stats, fnd, process>>

\* A second call, with the default context.
GenerateKeyAgain ==
  /\ pc = "generateKey.again"
  /\ call' = [call EXCEPT !.otherRet = generateKey(call.other)]
  /\ pc' = "done"
  /\ UNCHANGED <<options, project, baseline, results, usedKeys, gen, mrg, ext, val, dup, written, stats, fnd, process>>

InitKey ==
  /\ pc = "generateKey"
  /\ call \in [value : KeyValues, context : Contexts, other : OtherValues,
               ret : {""}, otherRet : {""}]
  /\ options = None /\ project = None /\ baseline = None
  /\ results = <<>>
  /\ usedKeys = <<>>
  /\ gen = None /\ mrg = None /\ ext = None /\ val = None /\ dup = None /\ fnd = None
  /\ process = Started
  /\ written = None
  /\ stats = None

NextKey == GenerateKeyCall \/ GenerateKeyAgain

SpecKey == InitKey /\ [][NextKey]_vars

\* The files getNamespaceFromPath is called for, by the directories, the
\* base name and the extension of the path relative to the root.
DirNames == {"src", "Lib", "a", "Ab"}
BaseNames == {"index", "Index", "Bb", "myComp", "_", "a"}
Extensions == {".js", ".tsx"}

RelativePath(dirs, base, extension) == join(Append(dirs, base \o extension), PathSep)

\* this.getNamespaceFromPath(filePath, rootPath)
GetNamespaceCall ==
  /\ pc = "getNamespaceFromPath"
  /\ call' = [call EXCEPT !.ret =
                getNamespaceFromPath(RelativePath(call.dirs, call.base, call.extension))]
  /\ pc' = "done"
  /\ UNCHANGED <<options, project, baseline, results, usedKeys, gen, mrg, ext, val, dup, written, stats, fnd, process>>

InitNamespace ==
  /\ pc = "getNamespaceFromPath"
  /\ call \in [dirs : SeqsUpTo(DirNames, MaxDirs), base : BaseNames,
               extension : Extensions, ret : {""}]
  /\ options = None /\ project = None /\ baseline = None
  /\ results = <<>>
  /\ usedKeys = <<>>
  /\ gen = None /\ mrg = None /\ ext = None /\ val = None /\ dup = None /\ fnd = None
  /\ process = Started
  /\ written = None
  /\ stats = None

NextNamespace == GetNamespaceCall

SpecNamespace == InitNamespace /\ [][NextNamespace]_vars

(***************************************************************************)
(* Claims about Generate.                                                  *)
(***************************************************************************)
\* C1: in one Generate run the full keys assigned to the occurrences are
\* pairwise distinct, with namespacing on and off.
C1_FullKeysDistinct ==
  gen # None =>
    \A m, n \in 1..Len(gen.assigned) : m # n => gen.assigned[m] # gen.assigned[n]

\* C1 witness: a finished run of three occurrences of one file with one base
\* fragment, where the loop had to suffix twice.
C1_Witness ==
  /\ pc = "done" /\ gen # None
  /\ Len(results) = 3
  /\ \A n \in 1..3 : results[n].file = "a.js" /\ results[n].value = "Ok"
  /\ options.namespace
  /\ gen.assigned = <<"a.ok", "a.ok_1", "a.ok_2">>

\* The node of a tree at a path of segments, Undefined when there is none.
RECURSIVE NodeAt(_, _)
NodeAt(tree, parts) ==
  IF Len(parts) = 0 THEN tree
  ELSE IF tree.t = "object" /\ HasOwn(tree.e, parts[1])
       THEN NodeAt(tree.e[OwnIndex(tree.e, parts[1])].v, Tail(parts))
       ELSE Undefined

\* The tree holds value for the dotted key: as the leaf at the key's path, or
\* as the _value child of the branch at that path.
HoldsValue(tree, fullKey, value) ==
  LET node == NodeAt(tree, split(fullKey, "."))
  IN \/ node = Str(value)
     \/ node.t = "object" /\ NodeAt(node, <<"_value">>) = Str(value)

Nested == ~options.flat /\ options.namespace

\* C3: Generate in nested mode completes and keeps every occurrence's value
\* in the tree, at its full key's path or under _value there, also when one
\* full key is a strict dotted prefix of another, in either order.
C3_NestedKeepsEveryValue ==
  (gen # None /\ Nested) =>
    /\ pc # "threw"
    /\ \A n \in 1..Len(gen.assigned) :
         HoldsValue(gen.translations, gen.assigned[n], results[n].value)

\* C4: with flat output and namespacing on, occurrences with different full
\* keys are written under different keys: the flat tree has one entry for
\* each occurrence processed.
C4_FlatOneEntryPerOccurrence ==
  (gen # None /\ options.flat /\ options.namespace) =>
    Len(gen.translations.e) = Len(gen.assigned)

\* The namespace and base fragment of the n-th occurrence of the run.
NsOfResult(n) == IF options.namespace THEN namespaceOf[results[n].file] ELSE ""
BaseOfResult(n) == generateKeyOf[results[n].value]
Suffixed(baseKey, c) == baseKey \o "_" \o ToDecimal(c)

(***************************************************************************)
(* Claims about the unique-key loops of Generate and Merge.                *)
(***************************************************************************)
\* The full keys assigned so far to the occurrences of the run, in input
\* order, and the keys claimed before the first occurrence: none in Generate,
\* the extracted keys in Merge.
AssignedKeys == IF gen # None THEN gen.assigned ELSE IF mrg # None THEN mrg.assigned ELSE <<>>
PreClaimed == IF mrg # None THEN mrg.usedKeyNames ELSE {}

\* C5 as stated: among the occurrences of one namespace and one base
\* fragment the first is assigned the unsuffixed key, and the k-th later one
\* is assigned base_k.
C5_FirstKeepsUnsuffixed ==
  \A n \in 1..Len(AssignedKeys) :
    LET earlier == {m \in 1..(n - 1) : NsOfResult(m) = NsOfResult(n)
                                       /\ BaseOfResult(m) = BaseOfResult(n)}
    IN AssignedKeys[n] =
         FullKey(NsOfResult(n),
                 IF earlier = {} THEN BaseOfResult(n)
                 ELSE Suffixed(BaseOfResult(n), Cardinality(earlier)))

\* C5 amended: an occurrence is assigned the unsuffixed key when that full key
\* is unclaimed at its turn, whoever claimed it, and otherwise base_c for the
\* smallest positive c whose full key is unclaimed at its turn.
C5_SmallestUnclaimed ==
  \A n \in 1..Len(AssignedKeys) :
    LET claimed == PreClaimed \cup {AssignedKeys[m] : m \in 1..(n - 1)}
        ns == NsOfResult(n)
        base == BaseOfResult(n)
    IN IF FullKey(ns, base) \notin claimed
       THEN AssignedKeys[n] = FullKey(ns, base)
       ELSE \E c \in 1..(Cardinality(claimed) + 1) :
              /\ AssignedKeys[n] = FullKey(ns, Suffixed(base, c))
              /\ AssignedKeys[n] \notin claimed
              /\ \A d \in 1..(c - 1) : FullKey(ns, Suffixed(base, d)) \in claimed

\* C5 witness: in Generate the first occurrence of base fragment ok_1 finds
\* a.ok_1 claimed by the second occurrence of base fragment ok, and is
\* assigned a.ok_1_1.
C5_Witness ==
  /\ gen # None /\ options.namespace
  /\ Len(gen.assigned) = 3
  /\ BaseOfResult(1) = "ok" /\ BaseOfResult(2) = "ok" /\ BaseOfResult(3) = "ok_1"
  /\ gen.assigned = <<"a.ok", "a.ok_1", "a.ok_1_1">>

\* Generate and Merge, the two operations that assign keys.
InitAssign == InitGenerate \/ InitMerge
NextAssign == NextGenerate \/ NextMerge
SpecAssign == InitAssign /\ [][NextAssign]_vars

(***************************************************************************)
(* Claims about Merge.                                                     *)
(***************************************************************************)
MergeBuilt == pc = "complete.build" /\ mrg.i = Len(mrg.allKeys)

\* C2: in nested Merge, once the tree is built, every key of the merged key
\* set has its value in the tree, at its own dotted path or under the _value
\* child of that path, for every insertion order and every placeholder.
C2_MergeKeepsEveryValue ==
  (MergeBuilt /\ ~options.flat) =>
    \A n \in 1..Len(mrg.allKeys) :
      HoldsValue(mrg.translations, mrg.allKeys[n].k, mrg.allKeys[n].v.value)

\* The location of the n-th hardcoded occurrence and its candidate full key.
LocationOfResult(n) == [file |-> results[n].file, line |-> results[n].line]
CandidateOfResult(n) == FullKey(NsOfResult(n), BaseOfResult(n))
CallSites(key) ==
  {[file |-> usedKeys[m].file, line |-> usedKeys[m].line] :
     m \in {u \in 1..Len(usedKeys) : usedKeys[u].key = key}}
Locations(entry) == {entry.locations[m] : m \in 1..Len(entry.locations)}

\* C6 as stated: when the full key generated for a hardcoded occurrence is a
\* key extracted from a translation call, the merged key set has for it one
\* entry, of source existing and the Extract value, whose locations hold the
\* call sites of the key and the location of the hardcoded occurrence.
C6_ExistingEntryHoldsBothLocations ==
  pc = "complete.build" =>
    \A n \in 1..Len(results) :
      MapHas(mrg.existingKeys, CandidateOfResult(n)) =>
        LET entry == MapGet(mrg.allKeys, CandidateOfResult(n))
        IN /\ entry.source = "existing"
           /\ entry.value = options.placeholder
           /\ CallSites(CandidateOfResult(n)) \subseteq Locations(entry)
           /\ LocationOfResult(n) \in Locations(entry)

\* C6 amended: a hardcoded occurrence whose candidate full key is an extracted
\* key is assigned a suffixed key of its own; the merged key set keeps the
\* extracted entry (source existing, the placeholder, exactly the call sites)
\* and holds a second entry, of source hardcoded, with the occurrence's text
\* and location.
C6_CollidingOccurrenceGetsOwnEntry ==
  pc = "complete.build" =>
    \A n \in 1..Len(results) :
      MapHas(mrg.existingKeys, CandidateOfResult(n)) =>
        LET entry == MapGet(mrg.allKeys, CandidateOfResult(n))
            own == MapGet(mrg.allKeys, mrg.assigned[n])
        IN /\ entry.source = "existing"
           /\ entry.value = options.placeholder
           /\ Locations(entry) = CallSites(CandidateOfResult(n))
           /\ mrg.assigned[n] # CandidateOfResult(n)
           /\ own.source = "hardcoded"
           /\ own.value = results[n].value
           /\ Locations(own) = {LocationOfResult(n)}

\* C6 witness: t('a.ok') is used and a.js holds the hardcoded string Ok.
C6_Witness ==
  /\ pc = "complete.build"
  /\ MapHas(mrg.existingKeys, "a.ok")
  /\ Len(results) = 1 /\ CandidateOfResult(1) = "a.ok"
  /\ mrg.assigned = <<"a.ok_1">>

(***************************************************************************)
(* Claims about Extract.                                                   *)
(***************************************************************************)
\* C7: the tree Extract produces has exactly one leaf for each distinct key
\* used: flattened to dotted leaf paths it gives the set of the distinct keys
\* of the key usages, also when one key is a dotted prefix of another and
\* for the empty placeholder.
C7_ExtractTreeHasTheUsedKeys ==
  (pc = "done" /\ ext # None) =>
    Range(FlattenedKeys(written.json)) = {usedKeys[n].key : n \in 1..Len(usedKeys)}

(***************************************************************************)
(* Claims about Validate and Duplicate check.                              *)
(***************************************************************************)
\* The leaves below the entries, in document order, each with its dotted path.
RECURSIVE Leaves(_, _)
Leaves(entries, prefix) ==
  IF Len(entries) = 0 THEN <<>>
  ELSE LET path == Dotted(prefix, Head(entries).k)
           node == Head(entries).v
       IN (IF node.t = "object" THEN Leaves(node.e, path)
           ELSE <<[path |-> path, v |-> node]>>)
          \o Leaves(Tail(entries), prefix)

\* The dotted paths of all nodes below the entries, branches included.
RECURSIVE Paths(_, _)
Paths(entries, prefix) ==
  IF Len(entries) = 0 THEN <<>>
  ELSE LET path == Dotted(prefix, Head(entries).k)
           node == Head(entries).v
       IN <<path>> \o (IF node.t = "object" THEN Paths(node.e, path) ELSE <<>>)
          \o Paths(Tail(entries), prefix)

Count(seq, x) == Cardinality({n \in 1..Len(seq) : seq[n] = x})

ValidateUsed == {project.keys[n].key : n \in 1..Len(project.keys)}
ValidateDefined ==
  LET leaves == Leaves(baseline.tree.e, "") IN {leaves[n].path : n \in 1..Len(leaves)}
ValidateExample ==
  /\ baseline = JsonFile(Obj(<<[k |-> "a", v |-> Obj(<<[k |-> "b", v |-> Str("Cancel")],
                                                        [k |-> "c", v |-> Str("Cancel")]>>)]>>))
  /\ ValidateUsed = {"a.b", "a.d"}

\* C8: Validate returns as missing exactly the used keys that are not leaf
\* paths of the baseline and as unused exactly the leaf paths that are not
\* used; no key is in both, a used key that is defined is in neither, and
\* for baseline keys {a.b, a.c} and used keys {a.b, a.d} the result is
\* missing = {a.d} and unused = {a.c}.
C8_ValidateMissingAndUnused ==
  (pc = "done" /\ val # None /\ val.result # None) =>
    LET missing == {val.result.missingKeys[n].key : n \in 1..Len(val.result.missingKeys)}
        unused == Range(val.result.unusedKeys)
    IN /\ missing = ValidateUsed \ ValidateDefined
       /\ unused = ValidateDefined \ ValidateUsed
       /\ missing \cap unused = {}
       /\ \A key \in ValidateUsed \cap ValidateDefined : key \notin missing \cup unused
       /\ ValidateExample => missing = {"a.d"} /\ unused = {"a.c"}

\* C8 witness: Validate has returned for baseline keys {a.b, a.c} and used
\* keys {a.b, a.d}.
C8_Witness ==
  /\ pc = "done" /\ val # None /\ val.result # None
  /\ ValidateExample
  /\ val.result.unusedKeys = <<"a.c">>

DupLeavesOf == Leaves(baseline.tree.e, "")
DupTexts == {DupLeavesOf[n].v.s : n \in {m \in 1..Len(DupLeavesOf) : DupLeavesOf[m].v.t = "string"}}
DupPathsOfText(text) ==
  {DupLeavesOf[n].path : n \in {m \in 1..Len(DupLeavesOf) : DupLeavesOf[m].v = Str(text)}}
DupCarriers(text) == Cardinality({n \in 1..Len(DupLeavesOf) : DupLeavesOf[n].v = Str(text)})

\* C9: Duplicate check on a readable tree reports exactly one duplicate-value
\* group for each text carried by two or more leaves, with exactly the dotted
\* paths of those leaves as its keys, and no group for a text carried by one
\* leaf; for {"a":"Cancel","b":"Cancel"} it reports one group for Cancel with
\* keys {a, b}.
C9_OneGroupPerRepeatedText ==
  (dup # None /\ baseline.exists /\ baseline.valid) =>
    /\ pc # "threw"
    /\ (pc = "done") =>
         /\ dup.result # None
         /\ \A text \in DupTexts :
              LET groups == {n \in 1..Len(dup.result.duplicateValues) :
                               dup.result.duplicateValues[n].value = text}
              IN IF DupCarriers(text) >= 2
                 THEN /\ Cardinality(groups) = 1
                      /\ \A n \in groups :
                           Range(dup.result.duplicateValues[n].keys) = DupPathsOfText(text)
                 ELSE groups = {}
         /\ \A n \in 1..Len(dup.result.duplicateValues) :
              dup.result.duplicateValues[n].value \in DupTexts

\* C10: Duplicate check reports a duplicate-key finding for a dotted path if
\* and only if the path is produced more than once while flattening the
\* tree; for a tree whose dotted paths are all distinct, whatever the key
\* names, there is no duplicate-key finding.
C10_DuplicateKeyIffPathRepeats ==
  (dup # None /\ pc \in {"duplicates.collect", "duplicates.report"}) =>
    LET paths == Paths(baseline.tree.e, "")
        found == {dup.duplicates[n].key : n \in 1..Len(dup.duplicates)}
    IN /\ found = {path \in Range(paths) : Count(paths, path) > 1}
       /\ (\A path \in Range(paths) : Count(paths, path) = 1) => dup.duplicates = <<>>

(***************************************************************************)
(* Claims about Classification and Key-usage extraction.                   *)
(***************************************************************************)
\* The positions of the nodes of a tree: the child indexes from the root.
RECURSIVE Positions(_)
Positions(node) ==
  {<<>>} \cup UNION {{<<n>> \o pos : pos \in Positions(node.kids[n])} : n \in 1..Len(node.kids)}

RECURSIVE At(_, _)
At(node, pos) == IF Len(pos) = 0 THEN node ELSE At(node.kids[Head(pos)], Tail(pos))

Parent(pos) == SubSeq(pos, 1, Len(pos) - 1)

\* The node at pos lies in the argument list of a call of a translation
\* function: below a child other than the callee.
InTranslationArguments(root, pos) ==
  \E m \in 1..Len(pos) : IsI18nCallNode(At(root, SubSeq(pos, 1, m - 1))) /\ pos[m] >= 2

\* The texts a node carries itself.
TextsOf(node) ==
  CASE node.type \in {"StringLiteral", "JSXText"} -> {node.value}
    [] node.type = "TemplateLiteral" -> Range(node.quasis)
    [] OTHER -> {}

ScanTree == project.files[1].ast
Scanned == pc # "scan" /\ stats # None /\ ScanTree # Unparsable
ResultValues == {results[n].value : n \in 1..Len(results)}

\* C11: every occurrence Classification emits carries the text of a literal
\* that lies outside the argument lists of all calls of the translation
\* functions, in direct or member form: a literal inside such an argument
\* list yields no occurrence, however many expressions, JSX elements or
\* functions separate it from the call.
C11_NothingInsideTranslationCall ==
  Scanned =>
    \A n \in 1..Len(results) :
      \E pos \in Positions(ScanTree) :
        /\ \E text \in TextsOf(At(ScanTree, pos)) : trim(text) = results[n].value
        /\ ~InTranslationArguments(ScanTree, pos)

\* C11 witness: t(() => <Text>Welcome to the App</Text>) has been scanned
\* and nothing was found.
C11_Witness ==
  /\ Scanned
  /\ ScanTree = Component(Wrapped(Text(JSXText("Welcome to the App")), <<"arrow", "t">>))
  /\ results = <<>>

Passes(value) ==
  ~shouldExcludeString(value, options.config.minStringLength) /\ ~isI18nString(value)

\* The number of occurrences counted for the type.
Counted(type) == CountOfType(stats.stringsByType, type)
ResultsOfType(type) == {n \in 1..Len(results) : results[n].type = type}

\* C12: no occurrence has a text shorter than the configured minimum, the
\* counters count the occurrences appended and nothing else, and a file all
\* of whose texts are shorter than the minimum leaves the results empty and
\* the string counters at zero, whatever shape holds the text.
C12_ShortStringsLeaveNoTrace ==
  Scanned =>
    /\ \A n \in 1..Len(results) : Len(results[n].value) >= options.config.minStringLength
    /\ stats.totalStrings = Len(results)
    /\ \A n \in 1..Len(results) :
         Counted(results[n].type) = Cardinality(ResultsOfType(results[n].type))
    /\ (\A pos \in Positions(ScanTree) : \A text \in TextsOf(At(ScanTree, pos)) :
          Len(trim(text)) < options.config.minStringLength)
       => /\ results = <<>>
          /\ stats = [NoStats EXCEPT !.filesScanned = 1]

\* C12 witness: <Text>Hey</Text> has been scanned with a minimum length of 4.
C12_Witness ==
  /\ Scanned
  /\ ScanTree = Component(Text(JSXText("Hey")))
  /\ options.config.minStringLength = 4
  /\ results = <<>>
  /\ stats.filesScanned = 1

\* The literal at pos is the value of an attribute with an excluded name, in
\* the plain form or in an expression container.
ExcludedAttributeValue(root, pos) ==
  \/ /\ Len(pos) >= 1
     /\ At(root, Parent(pos)).type = "JSXAttribute"
     /\ At(root, Parent(pos)).name \in excludeAttributeNames
  \/ /\ Len(pos) >= 2
     /\ At(root, Parent(pos)).type = "JSXExpressionContainer"
     /\ At(root, Parent(Parent(pos))).type = "JSXAttribute"
     /\ At(root, Parent(Parent(pos))).name \in excludeAttributeNames

\* C13: no occurrence of any kind carries the text of a literal that is the
\* value of a JSX attribute with an excluded name, in the plain form or in
\* the expression forms with a string or a template literal.
C13_ExcludedAttributeYieldsNothing ==
  Scanned =>
    \A pos \in Positions(ScanTree) :
      ExcludedAttributeValue(ScanTree, pos) =>
        \A text \in TextsOf(At(ScanTree, pos)) : trim(text) \notin ResultValues

\* The positions of the JSX texts, and of the plain attribute literals, that
\* pass all filters.
ExpectedAt(root, type) ==
  {pos \in Positions(root) :
     LET node == At(root, pos)
     IN IF type = "JSX Text"
        THEN /\ node.type = "JSXText"
             /\ ~InTranslationArguments(root, pos)
             /\ Passes(trim(node.value))
        ELSE /\ node.type = "StringLiteral"
             /\ Len(pos) >= 1
             /\ At(root, Parent(pos)).type = "JSXAttribute"
             /\ At(root, Parent(pos)).name \notin excludeAttributeNames
             /\ ~InTranslationArguments(root, pos)
             /\ Passes(node.value)}

\* C14: every JSX text node and every plain attribute literal that passes
\* the filters yields exactly one occurrence, of its kind and with the
\* trimmed text; the file with <Text>Welcome to the App</Text> and
\* <Button title="Click Me" /> yields exactly these two occurrences, and
\* Generate assigns them welcome_to_the_app and click_me under the namespace
\* of the file's path.
C14_TextsAndAttributesYieldOneEach ==
  Scanned =>
    /\ \A type \in {"JSX Text", "JSX Attribute"} :
         LET expected == ExpectedAt(ScanTree, type)
             found == ResultsOfType(type)
         IN /\ Cardinality(found) = Cardinality(expected)
            /\ \A pos \in expected :
                 Cardinality({n \in found : results[n].value = trim(At(ScanTree, pos).value)})
                   = Cardinality({other \in expected :
                                    trim(At(ScanTree, other).value) = trim(At(ScanTree, pos).value)})
    /\ ScanTree = ExampleFile =>
         /\ Len(results) = 2
         /\ results[1].type = "JSX Text" /\ results[1].value = "Welcome to the App"
         /\ results[2].type = "JSX Attribute" /\ results[2].value = "Click Me"
         /\ pc = "done" =>
              gen.assigned = <<FullKey(namespaceOf[results[1].file], "welcome_to_the_app"),
                               FullKey(namespaceOf[results[2].file], "click_me")>>

\* C14 witness: Generate has run on the occurrences of the example file.
C14_Witness ==
  /\ pc = "done"
  /\ ScanTree = ExampleFile
  /\ gen # None /\ gen.assigned = <<"a.bb.welcome_to_the_app", "a.bb.click_me">>

\* The calls of a translation function with a static first argument, as the
\* pairs of a position and the key.
StaticKeyCalls(root) ==
  {<<pos, key>> \in Positions(root) \X ScanKeys :
     LET node == At(root, pos)
     IN /\ IsI18nCallNode(node)
        /\ Len(node.kids) >= 2
        /\ \/ node.kids[2] = StringLiteral(key)
           \/ node.kids[2] = TemplateLiteral(<<key>>, <<>>)}

UsageTree == project.files[1].ast

\* C15: Key-usage extraction records exactly one KeyUsage, with the literal's
\* text as key, for every call of a translation function (identifier or
\* member property) whose first argument is a string literal or a template
\* literal without interpolation, and nothing for any other call;
\* <Text>{t('welcome.title')}</Text> gives one KeyUsage, with key
\* welcome.title.
C15_OneUsagePerStaticCall ==
  (pc = "done" /\ options = None /\ UsageTree # Unparsable) =>
    /\ Len(usedKeys) = Cardinality(StaticKeyCalls(UsageTree))
    /\ \A key \in ScanKeys :
         Cardinality({n \in 1..Len(usedKeys) : usedKeys[n].key = key})
           = Cardinality({c \in StaticKeyCalls(UsageTree) : c[2] = key})
    /\ UsageTree = Component(Text(JSXExpressionContainer(
                     CallExpression(Identifier("t"), <<StringLiteral("welcome.title")>>))))
       => Len(usedKeys) = 1 /\ usedKeys[1].key = "welcome.title"

\* C15 witness: <Text>{t('welcome.title')}</Text> has been scanned.
C15_Witness ==
  /\ pc = "done"
  /\ UsageTree = Component(Text(JSXExpressionContainer(
                   CallExpression(Identifier("t"), <<StringLiteral("welcome.title")>>))))
  /\ Len(usedKeys) = 1

\* C16: the string literals that are the branches of a conditional
\* expression placed directly in a JSX expression container are reported
\* when no translation call encloses them and they pass the filters.
C16_ConditionalBranchesReported ==
  Scanned =>
    \A pos \in Positions(ScanTree) :
      (/\ Len(pos) >= 2
       /\ At(ScanTree, pos).type = "StringLiteral"
       /\ At(ScanTree, Parent(pos)).type = "ConditionalExpression"
       /\ At(ScanTree, Parent(Parent(pos))).type = "JSXExpressionContainer"
       /\ ~InTranslationArguments(ScanTree, pos)
       /\ Passes(At(ScanTree, pos).value))
      => trim(At(ScanTree, pos).value) \in ResultValues

(***************************************************************************)
(* Claims about generateKey and getNamespaceFromPath.                      *)
(***************************************************************************)
KeyChars == "abcdefghijklmnopqrstuvwxyz0123456789_"

WellFormedKey(key) ==
  /\ Len(key) >= 2
  /\ \A i \in 1..Len(key) : IndexIn(Ch(key, i), KeyChars) > 0
  /\ Ch(key, Len(key)) # "_"
  /\ Len(key) <= 40 \/ StartsWith(key, "text_")

\* C17: generateKey returns, for every input, a fragment of at least 2
\* characters out of a-z, 0-9 and _, without a trailing underscore and at
\* most 40 characters long unless it is the fallback text_<hash>; the same
\* input gives the same fragment on a second call, whatever the context.
C17_KeyWellFormedAndDeterministic ==
  /\ (pc # "generateKey" /\ call # None /\ "otherRet" \in DOMAIN call)
       => WellFormedKey(call.ret)
  /\ (pc = "done" /\ call # None /\ "otherRet" \in DOMAIN call)
       => (/\ WellFormedKey(call.otherRet)
           /\ (call.value = call.other => call.ret = call.otherRet))

\* C17 witness: the key of 39 a's, a space and b is cut after the underscore,
\* which is then stripped.
C17_Witness ==
  /\ pc = "done" /\ call # None /\ "otherRet" \in DOMAIN call
  /\ call.value = Repeat("a", 39) \o " b"
  /\ call.ret = Repeat("a", 39)
  /\ call.context = "<Text>"

\* The words of a string: its maximal runs of characters other than spaces,
\* with everything but letters and digits dropped after lower-casing.
RECURSIVE KeptChars(_)
KeptChars(s) ==
  IF s = "" THEN ""
  ELSE LET c == LowerChar(Ch(s, 1))
       IN (IF IsLower(c) \/ IsDigit(c) \/ c = " " THEN c ELSE "") \o KeptChars(Tail(s))

\* Runs of spaces made one underscore each.
RECURSIVE JoinRuns(_, _)
JoinRuns(s, inRun) ==
  IF s = "" THEN ""
  ELSE IF Ch(s, 1) = " "
       THEN (IF inRun THEN "" ELSE "_") \o JoinRuns(Tail(s), TRUE)
       ELSE Ch(s, 1) \o JoinRuns(Tail(s), FALSE)

RECURSIVE WithoutTrailing(_)
WithoutTrailing(s) ==
  IF s # "" /\ Ch(s, Len(s)) = "_" THEN WithoutTrailing(SubSeq(s, 1, Len(s) - 1)) ELSE s

RECURSIVE WithoutLeading(_)
WithoutLeading(s) == IF s # "" /\ Ch(s, 1) = "_" THEN WithoutLeading(Tail(s)) ELSE s

\* The words joined: no underscore before the first or after the last.
NormalizedForm(s) == WithoutLeading(WithoutTrailing(JoinRuns(KeptChars(s), FALSE)))

\* C18 as stated: two distinct inputs with different normalized forms get
\* different fragments, also beyond 40 characters and on the fallback path.
C18_DifferentFormsDifferentKeys ==
  (pc = "done" /\ call # None /\ "otherRet" \in DOMAIN call) =>
    ((call.value # call.other /\ NormalizedForm(call.value) # NormalizedForm(call.other))
       => call.ret # call.otherRet)

\* The trimmed input lower-cased, stripped and with its runs of spaces made
\* underscores, cut to 40 characters and without trailing underscores.
RECURSIVE WithoutLeadingSpaces(_)
WithoutLeadingSpaces(s) ==
  IF s # "" /\ Ch(s, 1) = " " THEN WithoutLeadingSpaces(Tail(s)) ELSE s

RECURSIVE WithoutTrailingSpaces(_)
WithoutTrailingSpaces(s) ==
  IF s # "" /\ Ch(s, Len(s)) = " "
  THEN WithoutTrailingSpaces(SubSeq(s, 1, Len(s) - 1)) ELSE s

CutForm(s) ==
  LET form == JoinRuns(KeptChars(WithoutTrailingSpaces(WithoutLeadingSpaces(s))), FALSE)
  IN WithoutTrailing(SubSeq(form, 1, IF Len(form) > 40 THEN 40 ELSE Len(form)))

\* C18 amended: two inputs get different fragments when their forms after
\* trimming, lower-casing, stripping and joining, cut to 40 characters and
\* without trailing underscores, differ and have at least 2 characters each;
\* each fragment is then that cut form.
C18_DifferentCutFormsDifferentKeys ==
  (pc = "done" /\ call # None /\ "otherRet" \in DOMAIN call) =>
    ((/\ CutForm(call.value) # CutForm(call.other)
      /\ Len(CutForm(call.value)) >= 2
      /\ Len(CutForm(call.other)) >= 2)
       => (/\ call.ret # call.otherRet
           /\ call.ret = CutForm(call.value)
           /\ call.otherRet = CutForm(call.other)))

\* C18 witness: "a b" and "ab" have got the fragments a_b and ab.
C18_Witness ==
  /\ pc = "done" /\ call # None /\ "otherRet" \in DOMAIN call
  /\ call.value = "a b" /\ call.other = "ab"
  /\ call.ret = "a_b" /\ call.otherRet = "ab"

\* A base name in snake case: an underscore before every capital that is not
\* the first character, all lower-cased.
RECURSIVE SnakeCase(_, _)
SnakeCase(s, first) ==
  IF s = "" THEN ""
  ELSE (IF IsUpper(Ch(s, 1)) /\ ~first THEN "_" ELSE "") \o LowerChar(Ch(s, 1))
       \o SnakeCase(Tail(s), FALSE)

Lowered(s) == [i \in 1..Len(s) |-> LowerChar(Ch(s, i))]
IsIndex(base) == Len(base) = 5 /\ Lowered(base) = <<"i", "n", "d", "e", "x">>
NoiseSegments == {"src", "app", "lib", "utils"}

ExpectedSegments(dirs, base) ==
  SelectSeq([i \in 1..Len(dirs) |-> toLowerCase(dirs[i])], LAMBDA d : d \notin NoiseSegments)
  \o (IF IsIndex(base) THEN <<>> ELSE <<SnakeCase(base, TRUE)>>)

\* C19: getNamespaceFromPath returns the lower-cased directory segments in
\* path order without src, app, lib and utils, then the base name without
\* extension in snake case unless it is index in any letter case, joined
\* with dots, and common when no segment remains: it is never empty.
C19_NamespaceOfPath ==
  (pc = "done" /\ call # None /\ "dirs" \in DOMAIN call) =>
    LET segments == ExpectedSegments(call.dirs, call.base)
    IN /\ call.ret = IF Len(segments) = 0 THEN "common" ELSE join(segments, ".")
       /\ call.ret # ""

(***************************************************************************)
(* Claim about the round trip of a generated tree.                         *)
(***************************************************************************)
\* The entries with value stored at the path, objects made on the way.
RECURSIVE SetPath(_, _, _)
SetPath(entries, parts, value) ==
  IF Len(parts) = 1 THEN Put(entries, parts[1], value)
  ELSE LET below == IF HasOwn(entries, parts[1]) /\ entries[OwnIndex(entries, parts[1])].v.t = "object"
                    THEN entries[OwnIndex(entries, parts[1])].v.e
                    ELSE <<>>
       IN Put(entries, parts[1], Obj(SetPath(below, Tail(parts), value)))

\* The tree nested again from the (dotted key, value) pairs.
RECURSIVE Renest(_, _)
Renest(pairs, entries) ==
  IF Len(pairs) = 0 THEN Obj(entries)
  ELSE Renest(Tail(pairs), SetPath(entries, split(Head(pairs).path, "."), Head(pairs).v))

\* Equal up to the order of the keys.
RECURSIVE SameTree(_, _)
SameTree(a, b) ==
  /\ a.t = b.t
  /\ a.s = b.s
  /\ {a.e[n].k : n \in 1..Len(a.e)} = {b.e[n].k : n \in 1..Len(b.e)}
  /\ \A n \in 1..Len(a.e) : SameTree(a.e[n].v, b.e[OwnIndex(b.e, a.e[n].k)].v)

RoundTrips(tree) == SameTree(Renest(Leaves(tree.e, ""), <<>>), tree)

\* C20: a tree Generate wrote in nested mode, flattened into (dotted full
\* key, value) pairs and nested again by splitting the keys on dots, is the
\* same tree up to key order, and its flattened keys are the full keys
\* assigned in the run.
C20_GeneratedTreeRoundTrips ==
  (pc = "done" /\ gen # None /\ Nested /\ written # None) =>
    /\ RoundTrips(written.json)
    /\ Range(FlattenedKeys(written.json)) = Range(gen.assigned)

(***************************************************************************)
(* Claim about the key map Generate writes.                                *)
(***************************************************************************)
\* The key map names the key as that of the n-th occurrence of the run.
KeyMapNames(keyMap, key, result) ==
  \E n \in 1..Len(keyMap) :
    /\ keyMap[n].v.key = key
    /\ keyMap[n].v.file = result.file
    /\ keyMap[n].v.line = result.line

\* C21: the key map Generate wrote has an entry for every full key generated
\* in the run, giving the file and line of the occurrence the key was
\* generated for, also when two occurrences have the same text.
C21_KeyMapHasEveryKey ==
  (pc = "done" /\ gen # None /\ written # None) =>
    \A n \in 1..Len(gen.assigned) : KeyMapNames(written.keymap, gen.assigned[n], results[n])

\* The same for the runs whose occurrences all differ in their text.
C21_KeyMapOfDistinctTexts ==
  (/\ pc = "done" /\ gen # None /\ written # None
   /\ \A m, n \in 1..Len(results) : results[m].value = results[n].value => m = n) =>
    \A n \in 1..Len(gen.assigned) : KeyMapNames(written.keymap, gen.assigned[n], results[n])

(***************************************************************************)
(* One finder instance (new I18nStringFinder(config)) on which scans and   *)
(* Merge runs are called one after the other, on the files of one project. *)
(***************************************************************************)
MaxFiles == 2
MaxCalls == 2

\* <View><Text>{t('a.b')}</Text><Text>Hey</Text></View>
KeysFile ==
  Component(JSXElement("View", <<>>,
              <<Text(JSXExpressionContainer(CallExpression(Identifier("t"),
                                                           <<StringLiteral("a.b")>>))),
                Text(JSXText("Hey"))>>))

ProjectTrees == {Unparsable, ExampleFile, KeysFile}

\* The file sets of up to MaxFiles files, the n-th file at the n-th path.
ProjectFileSets ==
  {[n \in 1..Len(trees) |-> [path |-> ProjectPaths[n], ast |-> trees[n]]] :
     trees \in SeqsUpTo(ProjectTrees, MaxFiles) \ {<<>>}}

\* this.results, this.stats and this.usedKeys as a call finds them.
Fields == [results |-> results, stats |-> stats, usedKeys |-> usedKeys]

Idle == pc \in {"idle", "done"} /\ call.n < MaxCalls

\* await finder.scanProject(rootPath)
FinderScanProject ==
  /\ Idle
  /\ LET scanned == ParseFiles([results |-> results, stats |-> stats],
                               options.config, project.files, 1)
     IN /\ results' = scanned.results
        /\ stats' = scanned.stats
  /\ call' = [n |-> call.n + 1, op |-> "scanProject", files |-> project.files,
              before |-> Fields, log |-> call.log \o project.files]
  /\ pc' = "idle"
  /\ UNCHANGED <<options, project, baseline, usedKeys, gen, mrg, ext, val, dup, written, fnd, process>>

\* finder.parseFile(filePath)
FinderParseFile ==
  /\ Idle
  /\ \E n \in 1..Len(project.files) :
       LET parsed == parseFile([results |-> results, stats |-> stats],
                               options.config, project.files[n])
       IN /\ results' = parsed.results
          /\ stats' = parsed.stats
          /\ call' = [n |-> call.n + 1, op |-> "parseFile", files |-> <<project.files[n]>>,
                      before |-> Fields, log |-> Append(call.log, project.files[n])]
  /\ pc' = "idle"
  /\ UNCHANGED <<options, project, baseline, usedKeys, gen, mrg, ext, val, dup, written, fnd, process>>

\* await finder.scanUsedKeys(rootPath)
FinderScanUsedKeys ==
  /\ Idle
  /\ usedKeys' = ExtractFiles(usedKeys, project.files, 1)
  /\ call' = [n |-> call.n + 1, op |-> "scanUsedKeys", files |-> project.files,
              before |-> Fields, log |-> call.log]
  /\ pc' = "idle"
  /\ UNCHANGED <<options, project, baseline, results, gen, mrg, ext, val, dup, written, stats, fnd, process>>

\* generateComplete, step 1: this.usedKeys = []; await this.scanUsedKeys(rootPath)
FinderMergeKeys ==
  /\ Idle
  /\ usedKeys' = ExtractFiles(<<>>, project.files, 1)
  /\ mrg' = [i |-> 0, existingKeys |-> <<>>, newKeys |-> <<>>, usedKeyNames |-> {},
             allKeys |-> <<>>, translations |-> EmptyObject, assigned |-> <<>>]
  /\ call' = [n |-> call.n + 1, op |-> "generateComplete", files |-> project.files,
              before |-> Fields, log |-> call.log]
  /\ pc' = "complete.existing"
  /\ UNCHANGED <<options, project, baseline, results, gen, ext, val, dup, written, stats, fnd, process>>

\* generateComplete, step 2: this.results = []; this.stats = {...};
\* await this.scanProject(rootPath); then the declarations that open step 3.
FinderMergeStrings ==
  /\ pc = "complete.existing"
  /\ mrg.i = Len(usedKeys)
  /\ LET scanned == ParseFiles([results |-> <<>>, stats |-> NoStats],
                               options.config, project.files, 1)
     IN /\ results' = scanned.results
        /\ stats' = scanned.stats
  /\ mrg' = [mrg EXCEPT !.i = 0, !.usedKeyNames = usedKeyNamesOf(mrg.existingKeys)]
  /\ call' = [call EXCEPT !.log = project.files]
  /\ pc' = "complete.new"
  /\ UNCHANGED <<options, project, baseline, usedKeys, gen, ext, val, dup, written, fnd, process>>

InitFinder ==
  /\ pc = "idle"
  /\ options \in [flat : {FALSE}, namespace : {TRUE}, placeholder : {""},
                  config : [minStringLength : MinLengths]]
  /\ project \in [files : ProjectFileSets]
  /\ baseline = None
  /\ results = <<>>
  /\ usedKeys = <<>>
  /\ gen = None /\ mrg = None /\ ext = None /\ val = None /\ dup = None /\ fnd = None
  /\ process = Started
  /\ written = None
  /\ stats = NoStats
  /\ call = [n |-> 0, op |-> "constructor", files |-> <<>>,
             before |-> [results |-> <<>>, stats |-> NoStats, usedKeys |-> <<>>],
             log |-> <<>>]

NextFinder ==
  \/ FinderScanProject \/ FinderParseFile \/ FinderScanUsedKeys
  \/ FinderMergeKeys \/ MergeExistingForEach \/ FinderMergeStrings
  \/ MergeNewForEach \/ MergeUnion \/ MergeBuildForEach \/ MergeWrite

SpecFinder == InitFinder /\ [][NextFinder]_vars

(***************************************************************************)
(* Claim about a file that cannot be read or parsed.                       *)
(***************************************************************************)
Parsable(files) == SelectSeq(files, LAMBDA file : file.ast # Unparsable)

\* The last call was given a file that does not parse, and one that does.
MixedFiles ==
  /\ \E n \in 1..Len(call.files) : call.files[n].ast = Unparsable
  /\ \E n \in 1..Len(call.files) : call.files[n].ast # Unparsable

\* C22: a file that cannot be read or parsed does not abort a scan or a key
\* extraction: the occurrences, the counters and the key usages a call leaves
\* are those the call leaves on the file set without the failing files, and
\* the files counted as scanned are the files that parse.
C22_FailingFileIsSkipped ==
  /\ call.op \in {"scanProject", "parseFile"} =>
       LET without == ParseFiles([results |-> call.before.results, stats |-> call.before.stats],
                                 options.config, Parsable(call.files), 1)
       IN /\ results = without.results
          /\ stats = without.stats
          /\ stats.filesScanned = call.before.stats.filesScanned + Len(Parsable(call.files))
          /\ usedKeys = call.before.usedKeys
  /\ call.op = "scanUsedKeys" =>
       /\ usedKeys = ExtractFiles(call.before.usedKeys, Parsable(call.files), 1)
       /\ results = call.before.results
       /\ stats = call.before.stats

\* A scan of a failing file followed by a file with strings.
C22_Witness ==
  /\ MixedFiles
  /\ call.files[1].ast = Unparsable
  /\ call.op = "scanProject"
  /\ Len(results) > Len(call.before.results)
  /\ stats.filesScanned = call.before.stats.filesScanned + 1

\* A key extraction over a failing file followed by a file with a key usage.
FailingFileThenKeys ==
  /\ MixedFiles
  /\ call.files[1].ast = Unparsable
  /\ call.op = "scanUsedKeys"
  /\ Len(usedKeys) > Len(call.before.usedKeys)

(***************************************************************************)
(* findStringUsage (find-string-usage)                                     *)
(***************************************************************************)
\* searchInObject(obj, prefix): the loop over Object.entries(obj) from entry
\* n on, pushing onto matchingKeys.
RECURSIVE searchInObject(_, _, _, _, _)
searchInObject(entries, n, prefix, searchLower, matchingKeys) ==
  IF n > Len(entries) THEN matchingKeys
  ELSE LET fullKey == Dotted(prefix, entries[n].k)
           value == entries[n].v
       IN searchInObject(entries, n + 1, prefix, searchLower,
            IF value.t = "string"
            THEN IF Contains(toLowerCase(value.s), searchLower)
                 THEN Append(matchingKeys, [key |-> fullKey, value |-> value.s])
                 ELSE matchingKeys
            ELSE IF value.t = "object"
            THEN searchInObject(value.e, 1, fullKey, searchLower, matchingKeys)
            ELSE matchingKeys)

\* The existence test, JSON.parse in its try, searchInObject and the early
\* return on no match.
FindRead ==
  /\ pc = "find"
  /\ IF ~baseline.exists
     THEN /\ pc' = "done"
          /\ fnd' = [matchingKeys |-> <<>>, result |-> None]
          /\ process' = Log(NotFound(TranslationPath))
     ELSE IF ~baseline.valid
     THEN /\ pc' = "done"
          /\ fnd' = [matchingKeys |-> <<>>, result |-> None]
          /\ process' = Log(ParseError)
     ELSE LET matchingKeys == searchInObject(baseline.tree.e, 1, "",
                                             toLowerCase(options.searchString), <<>>)
          IN /\ process' = process
             /\ IF Len(matchingKeys) = 0
                THEN /\ pc' = "done"
                     /\ fnd' = [matchingKeys |-> <<>>,
                                result |-> [matchingKeys |-> <<>>, usages |-> <<>>]]
                ELSE /\ pc' = "find.scan"
                     /\ fnd' = [matchingKeys |-> matchingKeys, result |-> None]
  /\ UNCHANGED <<options, project, baseline, results, usedKeys, gen, mrg, ext, val, dup, written, stats, call>>

\* this.usedKeys = []; await this.scanUsedKeys(rootPath)
FindScan ==
  /\ pc = "find.scan"
  /\ usedKeys' = project.keys
  /\ pc' = "find.usages"
  /\ UNCHANGED <<options, project, baseline, results, gen, mrg, ext, val, dup, written, stats, call, fnd, process>>

\* matchingKeys.forEach: the matches that have usages, with their locations.
UsagesOf(matchingKeys, used) ==
  LET keyUsages(match) == SelectSeq(used, LAMBDA usage : usage.key = match.key)
      found == SelectSeq(matchingKeys, LAMBDA match : Len(keyUsages(match)) > 0)
  IN [n \in 1..Len(found) |->
        [key |-> found[n].key, value |-> found[n].value, locations |-> keyUsages(found[n])]]

FindUsages ==
  /\ pc = "find.usages"
  /\ fnd' = [fnd EXCEPT !.result = [matchingKeys |-> fnd.matchingKeys,
                                    usages |-> UsagesOf(fnd.matchingKeys, usedKeys)]]
  /\ pc' = "done"
  /\ UNCHANGED <<options, project, baseline, results, usedKeys, gen, mrg, ext, val, dup, written, stats, call, process>>

\* The texts searched for and the translation files searched in.
SearchStrings == {"cancel", "OK", "x"}
FindFiles ==
  {MissingFile, InvalidFile}
  \cup {JsonFile(t) : t \in TreesOver(ValidateTopKeys, ValidateSubKeys, {Str("Cancel"), Str("OK")})}

InitFind ==
  /\ pc = "find"
  /\ options \in [searchString : SearchStrings]
  /\ project \in [keys : KeyUsageSeqs(ValidateKeys, UsageFiles, MaxUsages), strings : {<<>>}]
  /\ baseline \in FindFiles
  /\ results = <<>>
  /\ usedKeys = <<>>
  /\ gen = None /\ mrg = None /\ ext = None /\ val = None /\ dup = None /\ fnd = None
  /\ process = Started
  /\ written = None
  /\ stats = None /\ call = None

NextFind == FindRead \/ FindScan \/ FindUsages

SpecFind == InitFind /\ [][NextFind]_vars

\* The three operations that read the translation file they are given.
InitBaseline == InitValidate \/ InitDup \/ InitFind
NextBaseline == NextValidate \/ NextDup \/ NextFind
SpecBaseline == InitBaseline /\ [][NextBaseline]_vars

(***************************************************************************)
(* Claim about a translation file that is missing or is not JSON.          *)
(***************************************************************************)
Unreadable == ~baseline.exists \/ ~baseline.valid

\* The operation on the translation file has ended.
BaselineOperationEnded ==
  /\ pc \in {"done", "threw"}
  /\ val # None \/ dup # None \/ fnd # None

NoResult ==
  /\ val # None => val.result = None
  /\ dup # None => dup.result = None
  /\ fnd # None => fnd.result = None

NamesPath == \E n \in 1..Len(process.console) : process.console[n].path = TranslationPath

\* C23: when the translation file is missing or is not valid JSON, Validate,
\* the Duplicate check and find-string-usage end with no result and no file
\* written, and what they report names the path of the file, in both cases.
C23_UnreadableBaselineReported ==
  (Unreadable /\ BaselineOperationEnded) => (NoResult /\ written = None /\ NamesPath)

\* The same with the path named for the missing file only, and some report
\* in both cases.
UnreadableBaselineEnds ==
  (Unreadable /\ BaselineOperationEnded) =>
    /\ NoResult
    /\ written = None
    /\ Len(process.console) = 1
    /\ ~baseline.exists => NamesPath

(***************************************************************************)
(* Claim about the writes of Generate, Merge and Extract.                  *)
(***************************************************************************)
InitBuild == InitGenerate \/ InitMerge \/ InitExtract
NextBuild == NextGenerate \/ NextMerge \/ NextExtract
SpecBuild == InitBuild /\ [][NextBuild]_vars

\* C24: the output file of Generate, Merge and Extract is written only once
\* the whole tree is built: while an operation builds, and after it has
\* failed with an error, nothing is written, and what is written is the
\* tree after the last step of the build.
C24_WritesAllOrNothing ==
  /\ pc # "done" => written = None
  /\ written # None =>
       \/ gen # None /\ gen.i = Len(results) /\ written.json = gen.translations
       \/ mrg # None /\ mrg.i = Len(mrg.allKeys) /\ written.json = mrg.translations
       \/ ext # None /\ ext.i = Len(ext.uniqueKeys) /\ written.json = ext.translations

\* Generate has failed on its second or third occurrence, with a part of
\* the tree built.
C24_Witness ==
  /\ pc = "threw"
  /\ gen # None
  /\ Len(gen.translations.e) > 0
  /\ gen.i < Len(results)
  /\ written = None

(***************************************************************************)
(* Claim about the status the command exits with.                          *)
(***************************************************************************)
ValidateEnded == pc = "done" /\ val # None /\ val.result # None
DupEnded == pc = "done" /\ dup # None /\ dup.result # None

ValidateFoundIssues ==
  Len(val.result.missingKeys) > 0 \/ Len(val.result.unusedKeys) > 0
DupFoundIssues ==
  Len(dup.result.duplicateKeys) > 0 \/ Len(dup.result.duplicateValues) > 0

\* C25: the command ends with a status other than zero when Validate finds
\* missing or unused keys and when the Duplicate check finds duplicates, and
\* with status zero when they find no issue.
C25_ExitStatusGates ==
  /\ ValidateEnded => (process.exitCode # 0 <=> ValidateFoundIssues)
  /\ DupEnded => (process.exitCode # 0 <=> DupFoundIssues)

\* The half that holds: no issue, status zero.
StatusZeroWithoutIssues ==
  /\ (ValidateEnded /\ ~ValidateFoundIssues) => process.exitCode = 0
  /\ (DupEnded /\ ~DupFoundIssues) => process.exitCode = 0

\* Runs of both kinds end, with issues and without.
ValidateEndsClean == ValidateEnded /\ ~ValidateFoundIssues /\ Len(val.result.definedKeys) > 0
DupEndsWithIssues == DupEnded /\ DupFoundIssues

(***************************************************************************)
(* Validate called again and again on one finder instance, with or without *)
(* a key scan called on the instance before.                               *)
(***************************************************************************)
MaxRuns == 2

\* await finder.scanUsedKeys(rootPath), before the first Validate
KeyScanFirst ==
  /\ pc = "validate"
  /\ call.runs = 0
  /\ usedKeys = <<>>
  /\ usedKeys' = usedKeys \o project.keys
  /\ UNCHANGED <<pc, options, project, baseline, results, gen, mrg, ext, val, dup, written, stats, call, fnd, process>>

\* await finder.validateKeys(rootPath, translationPath), once more; call
\* keeps what the run before returned.
ValidateAgain ==
  /\ pc = "done"
  /\ val.result # None
  /\ call.runs < MaxRuns
  /\ call' = [runs |-> call.runs + 1, missingKeys |-> val.result.missingKeys]
  /\ val' = None
  /\ pc' = "validate"
  /\ UNCHANGED <<options, project, baseline, results, usedKeys, gen, mrg, ext, dup, written, stats, fnd, process>>

InitRevalidate ==
  /\ pc = "validate"
  /\ options = None
  /\ project \in [keys : KeyUsageSeqs(ValidateKeys, UsageFiles, MaxUsages), strings : {<<>>}]
  /\ baseline \in ValidateFiles
  /\ results = <<>>
  /\ usedKeys = <<>>
  /\ gen = None /\ mrg = None /\ ext = None /\ val = None /\ dup = None /\ fnd = None
  /\ process = Started
  /\ written = None
  /\ stats = None
  /\ call = [runs |-> 0, missingKeys |-> <<>>]

NextRevalidate == KeyScanFirst \/ NextValidate \/ ValidateAgain

SpecRevalidate == InitRevalidate /\ [][NextRevalidate]_vars

\* C26: Validate run again on the same instance, files and translation file
\* returns the missing list of the run before, and no run returns usages an
\* earlier Validate or key scan has left on the instance: the missing list
\* is that of a run on a new instance.
C26_ValidateIsPure ==
  ValidateEnded =>
    /\ call.runs > 0 => val.result.missingKeys = call.missingKeys
    /\ val.result.missingKeys = MissingKeys(project.keys, val.definedKeys)

\* What does hold from run to run: the keys the missing list names, and the
\* unused list.
SameKeysMissing ==
  ValidateEnded =>
    /\ {val.result.missingKeys[n].key : n \in 1..Len(val.result.missingKeys)}
         = {k \in {project.keys[n].key : n \in 1..Len(project.keys)} :
              k \notin Range(val.definedKeys)}
    /\ val.result.unusedKeys
         = UnusedKeys(val.definedKeys, {project.keys[n].key : n \in 1..Len(project.keys)})

(***************************************************************************)
(* Claim about the counters of an instance.                                *)
(***************************************************************************)
RECURSIVE SumOfCounts(_)
SumOfCounts(stringsByType) ==
  IF Len(stringsByType) = 0 THEN 0
  ELSE Head(stringsByType).v + SumOfCounts(Tail(stringsByType))

\* The traversal of the file, on its own, appends an occurrence.
HasStrings(file) ==
  /\ file.ast # Unparsable
  /\ Len(Traverse([results |-> <<>>, stats |-> NoStats], options.config,
                  file.path, <<file.ast>>).results) > 0

\* C27: after any sequence of scanProject, parseFile and Merge calls on one
\* instance, failing files included, totalStrings is the length of results
\* and the sum of the counts by type, filesWithIssues is at most
\* filesScanned, and filesWithIssues is the number of traversals, since the
\* counters were last reset, that appended an occurrence.
C27_CountersAgree ==
  /\ stats.totalStrings = Len(results)
  /\ stats.totalStrings = SumOfCounts(stats.stringsByType)
  /\ stats.filesWithIssues <= stats.filesScanned
  /\ stats.filesWithIssues = Cardinality({n \in 1..Len(call.log) : HasStrings(call.log[n])})

\* A Merge, then a scan of one file, on a project with a file that has no
\* hardcoded string and a file that has two of two types.
C27_Witness ==
  /\ call.op = "parseFile"
  /\ mrg # None
  /\ pc = "idle"
  /\ stats.filesWithIssues = 2
  /\ stats.filesScanned = 3
  /\ Len(stats.stringsByType) = 2
  /\ Len(results) = 4

\* A failing file among the files scanned, after two scans.
CountersWithFailingFile ==
  /\ call.n = 2
  /\ \E n \in 1..Len(call.log) : call.log[n].ast = Unparsable
  /\ stats.filesWithIssues = 2

(***************************************************************************)
(* Claim about one occurrence per literal.                                 *)
(***************************************************************************)
\* The positions of the literals of the tree that carry the text.
LiteralsWith(root, value) ==
  {pos \in Positions(root) : \E text \in TextsOf(At(root, pos)) : trim(text) = value}

ResultsWith(value) == {n \in 1..Len(results) : results[n].value = value}

\* A string literal written as an attribute value in expression form.
AttributeExpressions(root) ==
  {pos \in Positions(root) :
     /\ Len(pos) >= 2
     /\ At(root, pos).type = "StringLiteral"
     /\ At(root, Parent(pos)).type = "JSXExpressionContainer"
     /\ At(root, Parent(Parent(pos))).type = "JSXAttribute"}

\* C28: a scan of a file emits at most one occurrence per string literal of
\* the source; a literal written as an attribute value in expression form is
\* reported once.
C28_OneOccurrencePerLiteral ==
  Scanned =>
    \A value \in ResultValues :
      Cardinality(ResultsWith(value)) <= Cardinality(LiteralsWith(ScanTree, value))

\* The same for the files with no attribute value in expression form.
OneOccurrencePerOtherLiteral ==
  (Scanned /\ AttributeExpressions(ScanTree) = {}) =>
    \A value \in ResultValues :
      Cardinality(ResultsWith(value)) <= Cardinality(LiteralsWith(ScanTree, value))

(***************************************************************************)
(* main: the configuration of the finder, from the defaults, the config    *)
(* file and the command line, and the default mode run with it.            *)
(***************************************************************************)
\* A value that is given, and the value that is not: no --min-length on the
\* command line, no minStringLength in the config file or no config file.
Given(value) == [given |-> TRUE, value |-> value]
NotGiven == [given |-> FALSE, value |-> 0]

\* .option('min-length', { type: 'number', default: 2 })
MinLengthOptionDefault == 2
\* DEFAULT_CONFIG.minStringLength
DefaultMinStringLength == 2

FlagValues == {NotGiven, Given(0), Given(4)}
ConfigFileValues == {NotGiven, Given(5), Given(10)}

\* argv.minLength: yargs fills in the default of an option that is not given.
argvMinLength(flag) == IF flag.given THEN flag.value ELSE MinLengthOptionDefault

\* config.minStringLength after "if (argv.minLength) config.minStringLength =
\* argv.minLength", config being the parsed config file or {}.
configMinStringLength(flag, fileValue) ==
  IF argvMinLength(flag) # 0 THEN Given(argvMinLength(flag)) ELSE fileValue

\* this.config = { ...DEFAULT_CONFIG, ...config }
finderMinStringLength(flag, fileValue) ==
  LET given == configMinStringLength(flag, fileValue)
  IN IF given.given THEN given.value ELSE DefaultMinStringLength

\* main up to new I18nStringFinder(config)
MainConfig ==
  /\ pc = "main"
  /\ options' = [options EXCEPT !.config =
                   [minStringLength |-> finderMinStringLength(call.flag, call.configFile)]]
  /\ pc' = "scan"
  /\ UNCHANGED <<project, baseline, results, usedKeys, gen, mrg, ext, val, dup, written, stats, call, fnd, process>>

\* One text in a JSX element, for each text, and the files of the instance
\* runs.
ConfigTrees ==
  {ExampleFile, KeysFile} \cup {Component(Text(JSXText(value))) : value \in ScanTexts}

InitConfig ==
  /\ pc = "main"
  /\ options = [flat |-> FALSE, namespace |-> TRUE, config |-> None]
  /\ project \in [files : {<<[path |-> path, ast |-> ast]>> :
                             path \in ScanFiles, ast \in ConfigTrees}]
  /\ baseline = None
  /\ results = <<>>
  /\ usedKeys = <<>>
  /\ gen = None /\ mrg = None /\ ext = None /\ val = None /\ dup = None /\ fnd = None
  /\ process = Started
  /\ written = None
  /\ stats = NoStats
  /\ call \in [flag : FlagValues, configFile : ConfigFileValues]

NextConfig == MainConfig \/ ScanProject \/ NextGenerate

SpecConfig == InitConfig /\ [][NextConfig]_vars

(***************************************************************************)
(* Claim about the minimum length the scan uses.                           *)
(***************************************************************************)
\* C29: with no --min-length on the command line the minStringLength of the
\* config file is the threshold of the scan, the defaults apply when the
\* config file sets none, and a value given on the command line overrides
\* the config file.
C29_ConfigFileSetsMinLength ==
  pc # "main" =>
    LET expected == IF call.flag.given THEN call.flag.value
                    ELSE IF call.configFile.given THEN call.configFile.value
                    ELSE DefaultMinStringLength
    IN /\ options.config.minStringLength = expected
       /\ pc # "scan" =>
            \A pos \in Positions(ScanTree) :
              \A text \in TextsOf(At(ScanTree, pos)) :
                (trim(text) \in ResultValues) => Len(trim(text)) >= expected

\* What holds: a value given on the command line, other than 0, is the
\* threshold, and with no flag the threshold is 2 whatever the config file
\* says.
FlagSetsMinLength ==
  pc # "main" =>
    /\ (call.flag.given /\ call.flag.value # 0) =>
         options.config.minStringLength = call.flag.value
    /\ ~call.flag.given => options.config.minStringLength = MinLengthOptionDefault

(***************************************************************************)
(* simpleHash step by step, with the arithmetic of its statements: the     *)
(* shift, the subtraction and the addition, then hash & hash.              *)
(***************************************************************************)
MaxInt32 == 2147483647
MinInt32 == -MaxInt32 - 1

\* (a + b) | 0 for two 32-bit integers
WrapAdd(a, b) ==
  IF a >= 0 /\ b >= 0 /\ a > MaxInt32 - b THEN (a + MinInt32) + (b + MinInt32)
  ELSE IF a < 0 /\ b < 0 /\ a < MinInt32 - b THEN (a - MinInt32) + (b - MinInt32)
  ELSE a + b

\* (-a) | 0
WrapNeg(a) == IF a = MinInt32 THEN MinInt32 ELSE -a

\* hash << n
RECURSIVE ShiftLeft(_, _)
ShiftLeft(hash, n) == IF n = 0 THEN hash ELSE ShiftLeft(WrapAdd(hash, hash), n - 1)

ShiftBits == 5

\* The step with the hash added after the shift instead of subtracted.
ShiftStepAdding(hash, char) == WrapAdd(WrapAdd(ShiftLeft(hash, ShiftBits), hash), char)

\* hash = ((hash << 5) - hash) + char; hash = hash & hash
ShiftStep(hash, char) == WrapAdd(WrapAdd(ShiftLeft(hash, ShiftBits), WrapNeg(hash)), char)

\* The body of the for loop, for the character at index call.i.
HashChar ==
  /\ pc = "simpleHash"
  /\ call.i < Len(call.str)
  /\ call' = [call EXCEPT !.i = @ + 1,
                          !.hash = ShiftStep(@, charCode(Ch(call.str, call.i + 1)))]
  /\ UNCHANGED <<pc, options, project, baseline, results, usedKeys, gen, mrg, ext, val, dup, written, stats, fnd, process>>

\* return Math.abs(hash).toString(36).substring(0, 8)
HashReturn ==
  /\ pc = "simpleHash"
  /\ call.i = Len(call.str)
  /\ call' = [call EXCEPT !.ret = substring0(AbsToString36(call.hash), HashTextLen)]
  /\ pc' = "done"
  /\ UNCHANGED <<options, project, baseline, results, usedKeys, gen, mrg, ext, val, dup, written, stats, fnd, process>>

\* The strings simpleHash is called with: all short strings over a few
\* characters, and texts long enough for the hash to wrap.
HashValues ==
  UNION {StringsOfLen(KeyAlphabet, n) : n \in 0..MaxLen}
  \cup ScanTexts \cup {OtherBranch, "text 2db"}

InitHash ==
  /\ pc = "simpleHash"
  /\ call \in [str : HashValues, i : {0}, hash : {0}, ret : {""}]
  /\ options = None /\ project = None /\ baseline = None
  /\ results = <<>>
  /\ usedKeys = <<>>
  /\ gen = None /\ mrg = None /\ ext = None /\ val = None /\ dup = None /\ fnd = None
  /\ process = Started
  /\ written = None
  /\ stats = None

NextHash == HashChar \/ HashReturn

SpecHash == InitHash /\ [][NextHash]_vars

(***************************************************************************)
(* Claim about simpleHash.                                                 *)
(***************************************************************************)
\* The number a base-36 text writes, negated: -2^31 is a 32-bit integer and
\* 2^31 is not.
RECURSIVE NegatedValue(_, _)
NegatedValue(text, acc) ==
  IF text = "" THEN acc
  ELSE NegatedValue(Tail(text), acc * Radix - (IndexIn(Ch(text, 1), Base36Digits) - 1))

MaxHashDigits == 6

\* C30: after every character the hash is 31 times the hash before plus the
\* character code, wrapped to a signed 32-bit integer, starting from 0; the
\* text returned is the base-36 text of the absolute value of the hash, it
\* has at most 6 characters and the cut to 8 characters removes nothing.
C30_HashIsWrapped31 ==
  pc \in {"simpleHash", "done"} =>
    /\ call.hash = HashFrom(0, SubSeq(call.str, 1, call.i))
    /\ call.hash >= MinInt32 /\ call.hash <= MaxInt32
    /\ pc = "done" =>
         /\ call.ret = AbsToString36(call.hash)
         /\ call.ret = simpleHash(call.str)
         /\ Len(call.ret) >= 1 /\ Len(call.ret) <= MaxHashDigits
         /\ NegatedValue(call.ret, 0) = (IF call.hash >= 0 THEN -call.hash ELSE call.hash)

\* A hash that has wrapped to a negative number, returned with 6 digits.
C30_Witness ==
  /\ pc = "done"
  /\ call.ret # ""
  /\ call.hash < 0
  /\ Len(call.str) > MaxHashDigits
  /\ Len(call.ret) = MaxHashDigits

====
